---- MODULE Spec2Model ----
(***************************************************************************)
(* P4Transfer: one-way replication of submitted changes from a source      *)
(* Perforce server to a target server.  This module models the scheduler   *)
(* (P4Transfer.replicate), one replication cycle (replicate_changes), the  *)
(* change discovery (P4Source.missingChanges), the counter and the         *)
(* change-map file (P4Target.getCounter .. submitChangeMap).  The servers  *)
(* are the environment: the source depot is a list of submitted changes,   *)
(* the target depot a list of submitted changes plus the files opened in   *)
(* the target workspace.                                                   *)
(***************************************************************************)
EXTENDS Integers, Sequences, FiniteSets, TLC

\* ------------------------------------------------------------------ bounds
MaxChange == 3      \* number of submitted source changes
MaxTarg == 5        \* change numbers the target server hands out
MaxBatch == 2       \* largest change_batch_size tried
MaxMaximum == 1     \* largest --maximum tried
MaxNonDefault == 2  \* settings a run may change from their defaults
MaxRuns == 2        \* calls of replicate() in one behaviour
MaxFaults == 1      \* failing server commands in one behaviour

\* ------------------------------------------------------- paths and the view
InsideFile == "//S/inside/a"
OutsideFile == "//S/outside/x"
DepotFiles == {InsideFile, OutsideFile}
InsideFileB == "//S/inside/b"
InsideFileC == "//S/inside/c"
MoveFiles == {InsideFile, InsideFileB, InsideFileC, OutsideFile}
NoPath == ""
MapFilePath == "//T/import/change_map.csv"
None == 0

\* P4Base.createClientWorkspace builds localmap from the configured views:
\* a depot path outside the view translates to nothing.
localmap(depotFile) ==
    IF depotFile = InsideFile THEN "ws/inside/a"
    ELSE IF depotFile = InsideFileB THEN "ws/inside/b"
    ELSE IF depotFile = InsideFileC THEN "ws/inside/c"
    ELSE NoPath

\* the target's depotmap: local path -> target depot path
depotmap(localFile) ==
    IF localFile = "ws/inside/a" THEN "//T/import/a"
    ELSE IF localFile = "ws/inside/b" THEN "//T/import/b"
    ELSE IF localFile = "ws/inside/c" THEN "//T/import/c"
    ELSE NoPath

\* the files one source change may hold: a change touches the view (and a
\* file outside it), or lies wholly outside the view
ChangeFiles == {DepotFiles, {OutsideFile}}

\* --------------------------------------------------------------- sequences
Take(s, k) == IF k >= Len(s) THEN s ELSE SubSeq(s, 1, k)

RECURSIVE Reverse(_)
Reverse(s) == IF s = <<>> THEN <<>> ELSE Append(Reverse(Tail(s)), Head(s))

Max(S) == CHOOSE x \in S : \A y \in S : y <= x

RECURSIVE Descending(_)
Descending(S) ==
    IF S = {} THEN <<>> ELSE <<Max(S)>> \o Descending(S \ {Max(S)})

Range(s) == {s[i] : i \in 1..Len(s)}

VARIABLES
    srcChanges,         \* source depot: srcChanges[n] = depot files of change n
    counter,            \* the named counter stored on the target
    targChanges,        \* target depot: submitted changes, oldest first
    targAlloc,          \* highest change number the target has handed out
    opened,             \* target workspace: files opened in the default changelist
    pendingOther,       \* files in numbered pending changes left by failed submits
    mapChg,             \* number of the pending change-map change, None if none
    mapChgFiles,        \* files swept into the pending change-map change
    mapOldFiles,        \* files held by earlier pending change-map changes
    mapRows,            \* rows of the local change-map file, <<source, target>>
    mapHeader,          \* number of header lines in the change-map file
    config,             \* the YAML configuration file
    options,            \* parsed command line and configuration values
    endPassed,          \* datetime.now() > options.end_datetime
    runsLeft,           \* how many more times the operator calls replicate()
    faultsLeft,         \* how many more commands the servers let fail
    pc,                 \* position of the process inside replicate()
    exitCode,           \* result of the last replicate() call
    counterVal,         \* replicate_changes: local counterVal
    changes,            \* replicate_changes: changes still to process
    cur,                \* replicate_changes: change being processed
    fileRevs,           \* local files of the revisions getChange returned
    filesToIgnore,      \* P4Target.filesToIgnore
    newChangeId,        \* replicateChange: newChangeId
    changesTransferred, \* replicate_changes: changesTransferred
    num_changes,        \* replicate: num_changes
    connected,          \* open connections: subset of {"src", "targ"}
    obs,                \* what happened to the change in hand, for the properties
    hist,               \* what happened over the runs, for the properties
    stopFile,           \* the stop file exists in the directory of the config
    mvPc,               \* position in the replication of one change with moves
    mvChange,           \* the moves <<from, to>> of that source change
    sourceP4DVersion,   \* SourceTargetTextComparison.sourceP4DVersion
    re_ignore_files,    \* local files the ignore_files patterns match
    mvTracked,          \* getChange: the MoveTracker before getMoves
    mvFileRevs,         \* getChange: fileRevs
    mvIgnored,          \* P4Target.filesToIgnore for that change
    mvTarget,           \* the revisions of the submitted target change
    mvAccepted,         \* validateSubmittedChange: result[0]
    cmpPc,              \* position in validateSubmittedChange of one change
    cmpSource,          \* srcFileRevs: the revisions getChange returned
    cmpTarget,          \* targFileRevs: revisions of the submitted change
    cmpIgnored,         \* P4Target.filesToIgnore for that change
    case_sensitive,     \* options.case_sensitive
    sourceVersion,      \* SourceTargetTextComparison.sourceVersion
    typPc,              \* position in replicateChange for one opened file
    chRevType,          \* fixFileTypes: chRev.type, the source filetype
    ofileType,          \* fixFileTypes: ofile['type'] as 'p4 opened' gave it
    targType,           \* the filetype of the file on the target
    nokeywords,         \* options.nokeywords
    typIgnored,         \* the file was appended to filesToIgnore
    rpPc,               \* position in the replication of one revision
    rpFile,             \* the revision: its action and its integrations
    rpPartner,          \* what the change does to the file it was moved from
    rpWhere,            \* the list getChange returned the revision in
    rpTarget,           \* the state of the file in the target depot
    ignore_integrations, \* options.ignore_integrations
    issued,             \* the commands processChangeRevs ran on the target
    rpEdges,            \* the indexes of the integrations replayed, in order
    rpIgnored,          \* the file was appended to filesToIgnore
    rpOpened,           \* the file is opened on the target
    rpLogged,           \* run_filelog returned a record of the revision
    chPc,               \* position in a cycle over changes with integrations
    chLeft,             \* changes of the cycle not yet replicated
    chStartRev,         \* the source revision of the file before the start
    chTargRevs,         \* first and head revision of the file on the target
    chIntegs,           \* the revision replicated and its integrations
    chFresh,            \* the same under caches nothing was left in
    srcFileLogCache,    \* P4Source.srcFileLogCache
    targStartRevCache,  \* P4Target.targStartRevCache
    igPc,               \* position in an integrate retry loop
    igLoop,             \* the function the loop belongs to
    igFlags,            \* flags
    igRevs,             \* the revision range srcname ends with, if any
    igOutput,           \* the patterns outputStr of the last attempt matches
    igIgnored,          \* destname was appended to filesToIgnore
    igAfter,            \* the command integrateDelete runs after its loop
    sbPc,               \* position in replicateChange and the loop around it
    renameOfDeletedFileEncountered, \* P4Target.renameOfDeletedFileEncountered
    resolveDeleteEncountered,       \* P4Target.resolveDeleteEncountered
    sbErrors,           \* p4.errors[0] of the last submit
    sbWarnings,         \* p4.warnings of the last submit
    sbReopened,         \* files reopened as binary and left out of the check
    sbSubmits,          \* submit commands run for the change in hand
    sbCounter,          \* the counter on the target
    sbChange,           \* the source change in hand
    ntPc,               \* position in the loop of replicate() with its mails
    ntOptions,          \* the options the loop reads
    ntNow,              \* time.time(), in minutes
    time_last_error_occurred, \* replicate: time_last_error_occurred
    error_encountered,  \* replicate: error_encountered
    error_notified,     \* replicate: error_notified
    notified,           \* the subjects logger.notify was called with
    ntPrev              \* how the cycle before ended

vars == <<srcChanges, counter, targChanges, targAlloc, opened, pendingOther,
          mapChg, mapChgFiles, mapOldFiles, mapRows, mapHeader, config, options,
          endPassed, runsLeft, faultsLeft,
          pc, exitCode, counterVal, changes, cur, fileRevs, filesToIgnore,
          newChangeId, changesTransferred, num_changes, connected, obs,
          hist, stopFile, mvPc, mvChange, sourceP4DVersion, re_ignore_files,
          mvTracked, mvFileRevs, mvIgnored, mvTarget, mvAccepted,
          cmpPc, cmpSource, cmpTarget, cmpIgnored, case_sensitive,
          sourceVersion, typPc, chRevType, ofileType, targType, nokeywords,
          typIgnored, rpPc, rpFile, rpPartner, rpWhere, rpTarget,
          ignore_integrations, issued, rpEdges, rpIgnored, rpOpened,
          rpLogged, chPc, chLeft, chStartRev, chTargRevs, chIntegs, chFresh,
          srcFileLogCache, targStartRevCache,
          igPc, igLoop, igFlags, igRevs, igOutput, igIgnored, igAfter,
          sbPc, renameOfDeletedFileEncountered, resolveDeleteEncountered,
          sbErrors, sbWarnings, sbReopened, sbSubmits, sbCounter, sbChange,
          ntPc, ntOptions, ntNow, time_last_error_occurred, error_encountered,
          error_notified, notified, ntPrev>>

\* everything but the replication of the change with moves
schedulerVars == <<srcChanges, config, runsLeft, stopFile, faultsLeft,
                   counter, targChanges, targAlloc, opened, pendingOther,
                   mapChg, mapChgFiles, mapOldFiles, mapRows, mapHeader,
                   counterVal, changes, cur, fileRevs, filesToIgnore,
                   newChangeId, changesTransferred, obs, options, endPassed,
                   pc, exitCode, num_changes, connected, hist>>

moveVars == <<mvPc, mvChange, sourceP4DVersion, re_ignore_files, mvTracked,
              mvFileRevs, mvIgnored, mvTarget, mvAccepted>>

\* the comparison of one submitted change with its source change
compareVars == <<cmpPc, cmpSource, cmpTarget, cmpIgnored, case_sensitive,
                 sourceVersion>>

\* the parts of the replication of one change that are modelled on their own
\* the filetype of one file opened for a change
typeVars == <<typPc, chRevType, ofileType, targType, nokeywords, typIgnored>>

\* the replay of one revision of a change
replayVars == <<rpPc, rpFile, rpPartner, rpWhere, rpTarget,
                ignore_integrations, issued, rpEdges, rpIgnored, rpOpened,
                rpLogged>>

\* the caches of a cycle under historical_start_change
cacheVars == <<chPc, chLeft, chStartRev, chTargRevs, chIntegs, chFresh,
               srcFileLogCache, targStartRevCache>>

\* one integrate retry loop
integVars == <<igPc, igLoop, igFlags, igRevs, igOutput, igIgnored, igAfter>>

\* the submit of one change and its recovery
submitVars == <<sbPc, renameOfDeletedFileEncountered, resolveDeleteEncountered,
                sbErrors, sbWarnings, sbReopened, sbSubmits, sbCounter,
                sbChange>>

\* the error state of replicate() and its notifications
notifyVars == <<ntPc, ntOptions, ntNow, time_last_error_occurred,
                error_encountered, error_notified, notified, ntPrev>>

furtherVars == <<submitVars, notifyVars>>

detailVars == <<compareVars, typeVars, replayVars, cacheVars, integVars,
                furtherVars>>

\* what each of these parts leaves alone
besideCompare ==
    <<schedulerVars, moveVars, typeVars, replayVars, cacheVars, integVars,
      furtherVars>>
besideTypes ==
    <<schedulerVars, moveVars, compareVars, replayVars, cacheVars, integVars,
      furtherVars>>
besideReplay ==
    <<schedulerVars, moveVars, compareVars, typeVars, cacheVars, integVars,
      furtherVars>>
besideCaches ==
    <<schedulerVars, moveVars, compareVars, typeVars, replayVars, integVars,
      furtherVars>>
besideInteg ==
    <<schedulerVars, moveVars, compareVars, typeVars, replayVars, cacheVars,
      furtherVars>>
earlierVars == <<schedulerVars, moveVars, compareVars, typeVars, replayVars,
                 cacheVars, integVars>>
besideSubmit == <<earlierVars, notifyVars>>
besideNotify == <<earlierVars, submitVars>>

envVars == <<srcChanges, config, runsLeft, stopFile, moveVars, detailVars>>
serverVars == <<envVars, faultsLeft>>
targetVars == <<counter, targChanges, targAlloc, opened, pendingOther,
                mapChg, mapChgFiles, mapOldFiles, mapRows, mapHeader>>
cycleVars == <<counterVal, changes, cur, fileRevs, filesToIgnore,
               newChangeId, changesTransferred, obs>>

\* ------------------------------------------------------------ configuration
\* The keys of the YAML file that readConfig inspects.
ValidConfig ==
    [readable |-> TRUE, counter_name |-> TRUE, views |-> TRUE,
     stream_views |-> FALSE, transfer_target_stream |-> FALSE,
     workspace_root |-> TRUE, source_section |-> TRUE,
     target_section |-> TRUE, required_options |-> TRUE]

ConfigSpace ==
    {ValidConfig,
     [ValidConfig EXCEPT !.readable = FALSE],
     [ValidConfig EXCEPT !.counter_name = FALSE],
     [ValidConfig EXCEPT !.views = FALSE],
     [ValidConfig EXCEPT !.workspace_root = FALSE],
     [ValidConfig EXCEPT !.source_section = FALSE],
     [ValidConfig EXCEPT !.target_section = FALSE],
     [ValidConfig EXCEPT !.required_options = FALSE]}

\* readConfig accepting every file
readConfigAcceptsAll(cfg) == {}

\* P4Transfer.readConfig: the set of errors it raises P4TConfigException for
\* (empty when the configuration is accepted).
readConfig(cfg) ==
    IF ~cfg.readable THEN {"Could not read config file"}
    ELSE LET errors ==
                (IF ~cfg.counter_name
                    THEN {"Option counter_name must be specified"} ELSE {})
                \cup (IF ~cfg.views /\ ~cfg.stream_views
                    THEN {"One of options views/stream_views must be specified"}
                    ELSE {})
                \cup (IF ~cfg.workspace_root
                    THEN {"Option workspace_root must not be blank"} ELSE {})
                \cup (IF cfg.stream_views /\ ~cfg.transfer_target_stream
                    THEN {"Option transfer_target_stream must be specified"}
                    ELSE {})
         IN IF errors # {} THEN errors
            ELSE IF ~cfg.source_section \/ ~cfg.target_section
                 THEN {"Config file needs section"}
            ELSE IF ~cfg.required_options
                 THEN {"Required option not found in section"}
            ELSE {}

\* Command line and configuration values the scheduler reads.  maximum = 0
\* stands for None (no --maximum), newServer for sourceP4DVersion > "2017.1";
\* change_batch_size is DefaultBatch unless the configuration sets it.
DefaultBatch == 1000

OptionSpace ==
    [notransfer : BOOLEAN, repeat : BOOLEAN, stoponerror : BOOLEAN,
     ignore_errors : BOOLEAN, maximum : 0..MaxMaximum,
     change_batch_size : (0..MaxBatch) \cup {DefaultBatch},
     historical_start_change : {0},
     change_map_file : BOOLEAN, end_datetime : BOOLEAN, newServer : BOOLEAN]

\* the values parse_args and readConfig give when nothing is specified
DefaultOptions ==
    [notransfer |-> FALSE, repeat |-> FALSE, stoponerror |-> FALSE,
     ignore_errors |-> FALSE, maximum |-> 0,
     change_batch_size |-> DefaultBatch, historical_start_change |-> 0,
     change_map_file |-> FALSE, end_datetime |-> FALSE, newServer |-> TRUE]

\* in how many settings a run differs from the defaults and a valid file
NonDefault(o, cfg) ==
    Cardinality({k \in DOMAIN o : o[k] # DefaultOptions[k]})
        + (IF cfg = ValidConfig THEN 0 ELSE 1)

\* ------------------------------------------------------ source server model
\* 'p4 changes -s submitted //client/...@lo,#head': the submitted changes that
\* touch a file of the client view, newest first.
InView(n) ==
    /\ n \in DOMAIN srcChanges
    /\ \E f \in srcChanges[n] : localmap(f) # NoPath

InViewIds(lo) == {n \in lo..Len(srcChanges) : InView(n)}

\* 'p4 changes [-r] [-m max] revRange'; max = 0 means no -m
p4changes(lo, reverse, max) ==
    LET newestFirst == Descending(InViewIds(lo))
        ordered == IF reverse THEN Reverse(newestFirst) ELSE newestFirst
    IN IF max > 0 THEN Take(ordered, max) ELSE ordered

\* missingChanges with the reversal of the old-server path left out
missingChangesNewestFirst(ctr) ==
    LET revStart == ctr + 1 IN
    IF options.newServer
    THEN LET batch == IF options.change_batch_size # 0
                      THEN options.change_batch_size ELSE 0
             maxChanges == IF options.maximum # 0 /\ options.maximum < batch
                           THEN options.maximum ELSE batch
         IN p4changes(revStart, TRUE, maxChanges)
    ELSE LET all == p4changes(revStart, FALSE, 0)
             batched == IF options.change_batch_size # 0
                        THEN Take(all, options.change_batch_size) ELSE all
         IN IF options.maximum # 0 THEN Take(batched, options.maximum)
            ELSE batched

\* P4Source.missingChanges
missingChanges(ctr) ==
    LET revStart == ctr + 1 IN
    IF options.newServer
    THEN LET batch == IF options.change_batch_size # 0
                      THEN options.change_batch_size ELSE 0
             maxChanges == IF options.maximum # 0 /\ options.maximum < batch
                           THEN options.maximum ELSE batch
         IN p4changes(revStart, TRUE, maxChanges)
    ELSE LET all == Reverse(p4changes(revStart, FALSE, 0))
             batched == IF options.change_batch_size # 0
                        THEN Take(all, options.change_batch_size) ELSE all
         IN IF options.maximum # 0 THEN Take(batched, options.maximum)
            ELSE batched

\* getCounter without the step back from the historical start change
getCounterStored == counter

\* P4Target.getCounter
getCounter ==
    LET val == counter IN
    IF val = 0 /\ options.historical_start_change > 0
    THEN options.historical_start_change - 1 ELSE val

\* getChange without the test 'if localFile and len(localFile) > 0'
getChangeUnfiltered(n) == {localmap(f) : f \in srcChanges[n]}

\* P4Source.getChange: the local files of the revisions inside the view
getChange(n) == {localmap(f) : f \in {g \in srcChanges[n] : localmap(g) # NoPath}}

\* ------------------------------------------------------------ the scheduler
\* what the properties observe of the change in hand: whether the replay
\* (or the reconcile) left files to submit, the source change a target
\* submit succeeded for, whether validateSubmittedChange ran to its end and
\* what listsEqual answered
EmptyObs ==
    [hadFiles |-> FALSE, submitted |-> None, checked |-> FALSE,
     accepted |-> FALSE]

\* what the properties observe over the runs: whether replicate() was ever
\* called, how many replicateChange calls returned in the current run, the
\* source changes replicateChange ever returned for, and the pending changes
\* the last two --notransfer runs reported (with the historical start
\* change they ran under), the change whose submit failed, and the changes
\* whose source sync reported a failed translation of file content
EmptyHist ==
    [ran |-> FALSE, runDone |-> 0, returned |-> {}, lastReport |-> <<>>,
     prevReport |-> <<>>, failed |-> None, unsynced |-> {}]

\* the locals of replicate_changes before its first statement
ResetCycle ==
    /\ counterVal' = 0
    /\ changes' = <<>>
    /\ cur' = None
    /\ fileRevs' = {}
    /\ filesToIgnore' = {}
    /\ newChangeId' = None
    /\ changesTransferred' = 0
    /\ obs' = EmptyObs

\* leave replicate() with the given exit code
Return(code) ==
    /\ pc' = "idle"
    /\ exitCode' = code
    /\ num_changes' = 0
    /\ ResetCycle

\* the second except clause taken for every exception
RaiseAlwaysSleeps(kind) ==
    /\ pc' = "errorSleep"
    /\ num_changes' = 0
    /\ ResetCycle
    /\ UNCHANGED exitCode

\* the second except clause without its test of --stoponerror
RaiseIgnoringStoponerror(kind) ==
    IF kind = "P4TException"
    THEN Return(1)
    ELSE RaiseAlwaysSleeps(kind)

\* the two except clauses of the scheduler loop in replicate(): a
\* P4TException, or any exception under --stoponerror, returns 1; any other
\* exception goes on to the sleep on error
Raise(kind) ==
    IF kind = "P4TException" \/ options.stoponerror
    THEN Return(1)
    ELSE /\ pc' = "errorSleep"
         /\ num_changes' = 0
         /\ ResetCycle
         /\ UNCHANGED exitCode

Goto(label) == pc' = label /\ UNCHANGED exitCode

\* the outcomes a server command may have: it fails only while the
\* environment still has a failure to spend
Outcomes == IF faultsLeft > 0 THEN BOOLEAN ELSE {TRUE}

Spend(ok) == faultsLeft' = IF ok THEN faultsLeft ELSE faultsLeft - 1

\* server versions as <<year, release>>, compared as Python compares the
\* version strings "2020.2", "2021.0", "2021.1"
Versions == {<<2020, 2>>, <<2021, 1>>}

VersionGreater(a, b) == a[1] > b[1] \/ (a[1] = b[1] /\ a[2] > b[2])

EmptyDict == [k \in {} |-> NoPath]

\* dict.values()
Values(d) == {d[k] : k \in DOMAIN d}

\* MoveTracker.__init__
EmptyTracker == [adds |-> EmptyDict, deletes |-> EmptyDict]

\* the source changes replicated below hold no move
NoMoves ==
    /\ mvPc = "none"
    /\ mvChange = {}
    /\ sourceP4DVersion = <<2021, 1>>
    /\ re_ignore_files = {}
    /\ mvTracked = EmptyTracker
    /\ mvFileRevs = {}
    /\ mvIgnored = {}
    /\ mvTarget = {}
    /\ mvAccepted = FALSE

\* no submitted change is being compared
NoCompare ==
    /\ cmpPc = "none"
    /\ cmpSource = {}
    /\ cmpTarget = {}
    /\ cmpIgnored = {}
    /\ case_sensitive = TRUE
    /\ sourceVersion = "LINUX26X86_64"

\* the scheduler replicates changes whose replay is not looked into
NoTypes ==
    /\ typPc = "none"
    /\ chRevType = "text"
    /\ ofileType = "text"
    /\ targType = "text"
    /\ nokeywords = FALSE
    /\ typIgnored = FALSE

NoReplay ==
    /\ rpPc = "none"
    /\ rpFile = [action |-> "edit", integs |-> <<>>]
    /\ rpPartner = "none"
    /\ rpWhere = "none"
    /\ rpTarget = "head"
    /\ ignore_integrations = FALSE
    /\ issued = <<>>
    /\ rpEdges = <<>>
    /\ rpIgnored = FALSE
    /\ rpOpened = FALSE
    /\ rpLogged = TRUE

NoCaches ==
    /\ chPc = "none"
    /\ chLeft = 0
    /\ chStartRev = 0
    /\ chTargRevs = <<1, 1>>
    /\ chIntegs = [depotFile |-> InsideFile, integs |-> <<>>]
    /\ chFresh = [depotFile |-> InsideFile, integs |-> <<>>]
    /\ srcFileLogCache = EmptyDict
    /\ targStartRevCache = EmptyDict

NoInteg ==
    /\ igPc = "none"
    /\ igLoop = "doIntegrate"
    /\ igFlags = {}
    /\ igRevs = <<>>
    /\ igOutput = {}
    /\ igIgnored = FALSE
    /\ igAfter = "none"

NoSubmit ==
    /\ sbPc = "none"
    /\ renameOfDeletedFileEncountered = FALSE
    /\ resolveDeleteEncountered = FALSE
    /\ sbErrors = "none"
    /\ sbWarnings = <<>>
    /\ sbReopened = {}
    /\ sbSubmits = 0
    /\ sbCounter = 0
    /\ sbChange = 0

NoNotify ==
    /\ ntPc = "none"
    /\ ntOptions = [repeat |-> FALSE, stoponerror |-> FALSE,
                    notransfer |-> FALSE, error_report_interval |-> 0]
    /\ ntNow = 0
    /\ time_last_error_occurred = 0
    /\ error_encountered = FALSE
    /\ error_notified = FALSE
    /\ notified = <<>>
    /\ ntPrev = "none"

NoFurther == NoSubmit /\ NoNotify

NoDetail ==
    NoCompare /\ NoTypes /\ NoReplay /\ NoCaches /\ NoInteg /\ NoFurther

\* both servers and the process before replicate() is first called: an
\* empty target depot, no counter, no process running
InitState ==
    /\ counter = 0
    /\ targChanges = <<>>
    /\ targAlloc = 0
    /\ opened = {}
    /\ pendingOther = {}
    /\ mapChg = None
    /\ mapChgFiles = {}
    /\ mapOldFiles = {}
    /\ mapRows = <<>>
    /\ mapHeader = 0
    /\ endPassed = FALSE
    /\ stopFile = FALSE
    /\ pc = "idle"
    /\ exitCode = 0
    /\ counterVal = 0
    /\ changes = <<>>
    /\ cur = None
    /\ fileRevs = {}
    /\ filesToIgnore = {}
    /\ newChangeId = None
    /\ changesTransferred = 0
    /\ num_changes = 0
    /\ connected = {}
    /\ obs = EmptyObs
    /\ hist = EmptyHist

\* one call of replicate() over every source depot, configuration file and
\* command line of the bounds
Init ==
    /\ InitState
    /\ srcChanges \in UNION {[1..n -> ChangeFiles] : n \in 0..MaxChange}
    /\ config \in ConfigSpace
    /\ options \in OptionSpace
    /\ NonDefault(options, config) <= MaxNonDefault
    /\ config # ValidConfig => options = DefaultOptions
    /\ runsLeft = 1
    /\ faultsLeft = MaxFaults
    /\ NoMoves
    /\ NoDetail

\* the command lines of the runs that are stopped and started again
RestartOptions ==
    {DefaultOptions,
     [DefaultOptions EXCEPT !.notransfer = TRUE],
     [DefaultOptions EXCEPT !.repeat = TRUE],
     [DefaultOptions EXCEPT !.change_map_file = TRUE],
     [DefaultOptions EXCEPT !.end_datetime = TRUE]}

\* replicate() called MaxRuns times on a source depot of MaxChange changes
InitRestart ==
    /\ InitState
    /\ srcChanges \in [1..MaxChange -> ChangeFiles]
    /\ config = ValidConfig
    /\ options \in RestartOptions
    /\ runsLeft = MaxRuns
    /\ faultsLeft = 0
    /\ NoMoves
    /\ NoDetail

\* between two runs the operator edits historical_start_change in the
\* configuration file, or adds or drops --notransfer on the command line
EditConfig ==
    /\ pc = "idle"
    /\ runsLeft > 0
    /\ \E h \in 0..MaxChange, nt \in BOOLEAN :
          /\ <<h, nt>> # <<options.historical_start_change,
                           options.notransfer>>
          /\ options' = [options EXCEPT !.historical_start_change = h,
                                        !.notransfer = nt]
    /\ UNCHANGED <<serverVars, targetVars, cycleVars, endPassed, pc, exitCode,
                   num_changes, connected, hist>>

\* the wall clock passes --end-datetime
Tick ==
    /\ options.end_datetime
    /\ ~endPassed
    /\ endPassed' = TRUE
    /\ UNCHANGED <<serverVars, targetVars, cycleVars, options, pc, exitCode,
                   num_changes, connected, hist>>

\* replicate: 'if self.options.change_batch_size and num_changes >=
\* self.options.change_batch_size'
batchFull ==
    options.change_batch_size # 0 /\ num_changes >= options.change_batch_size

\* controlled_sleep is the next call of replicate(): in the second except
\* clause, or in the last branch after replicate_changes returned
SleepAtHand ==
    \/ pc = "errorSleep"
    \/ pc = "after" /\ ~batchFull /\ options.repeat

\* the operator creates the stop file while replicate() runs; only
\* controlled_sleep looks at it, so it appears when a sleep is at hand
TouchStopFile ==
    /\ SleepAtHand
    /\ ~stopFile
    /\ stopFile' = TRUE
    /\ UNCHANGED <<srcChanges, config, runsLeft, moveVars, detailVars,
                   faultsLeft, targetVars, cycleVars, options, endPassed, pc,
                   exitCode, num_changes, connected, hist>>

\* controlled_sleep: True when the stop file is seen, at the start of the
\* sleep or at one of the checks every 30 seconds
controlled_sleep == stopFile

\* P4Transfer.replicate is called
Start ==
    /\ pc = "idle"
    /\ runsLeft > 0
    /\ runsLeft' = runsLeft - 1
    /\ pc' = "setup"
    /\ exitCode' = 0
    /\ connected' = {}
    /\ hist' = [hist EXCEPT
                   !.ran = TRUE,
                   !.runDone = 0,
                   !.failed = None,
                   !.lastReport = IF options.notransfer THEN @ ELSE <<>>,
                   !.prevReport = IF options.notransfer THEN @ ELSE <<>>]
    /\ UNCHANGED <<srcChanges, config, stopFile, moveVars, detailVars,
                   faultsLeft, targetVars, cycleVars, options, endPassed,
                   num_changes>>

\* replicate: writeLogHeader and setupReplicate inside the first try block
SetupReplicate ==
    /\ pc = "setup"
    /\ IF readConfig(config) # {}
       THEN Return(1) /\ UNCHANGED connected
       ELSE /\ Goto("loop")
            /\ connected' = {"src", "targ"}
            /\ UNCHANGED <<cycleVars, num_changes>>
    /\ UNCHANGED <<serverVars, targetVars, options, endPassed, hist>>

\* replicate_changes: 'if self.options.notransfer: return 0'
stopsBeforeTransferNever == FALSE

stopsBeforeTransfer == options.notransfer

\* top of the while loop of replicate, and replicate_changes up to the
\* --notransfer return and the historical-start test
CycleBegin ==
    /\ pc = "loop"
    /\ IF readConfig(config) # {}
       THEN /\ Raise("P4TException")
            /\ UNCHANGED <<connected, hist>>
       ELSE LET cv == getCounter
                chs == missingChanges(cv)
            IN /\ connected' = {"src", "targ"}
               /\ counterVal' = cv
               /\ changes' = chs
               /\ changesTransferred' = 0
               /\ cur' = None
               /\ fileRevs' = {}
               /\ filesToIgnore' = {}
               /\ newChangeId' = None
               /\ obs' = EmptyObs
               /\ num_changes' = 0
               /\ hist' = IF options.notransfer
                          THEN [hist EXCEPT
                                  !.prevReport = hist.lastReport,
                                  !.lastReport =
                                     <<options.historical_start_change,
                                       Range(chs)>>]
                          ELSE hist
               /\ IF stopsBeforeTransfer THEN Goto("after")
                  ELSE IF options.historical_start_change # 0
                          /\ cv < options.historical_start_change
                  THEN Goto("first")
                  ELSE Goto("batch")
    /\ UNCHANGED <<serverVars, targetVars, options, endPassed>>

\* ------------------------------------------------------ target server model
\* the target depot path of a local file, and back (validateSubmittedChange
\* translates the depot files of the submitted change with localmap)
targLocal(depotFile) ==
    IF depotFile = "//T/import/a" THEN "ws/inside/a"
    ELSE IF depotFile = "//T/import/b" THEN "ws/inside/b"
    ELSE IF depotFile = "//T/import/c" THEN "ws/inside/c"
    ELSE NoPath

\* every file 'p4 opened' lists for the target client
AllOpened ==
    opened \cup pendingOther \cup mapChgFiles \cup mapOldFiles
        \cup (IF mapChg # None THEN {MapFilePath} ELSE {})

MapFileInDepot ==
    \E i \in 1..Len(targChanges) : MapFilePath \in targChanges[i].files

\* the in-view files the source workspace holds after 'sync @change'
FilesAt(change) ==
    {depotmap(localmap(f)) :
        f \in {g \in DepotFiles :
                 /\ localmap(g) # NoPath
                 /\ \E n \in 1..Len(srcChanges) : n <= change /\ g \in srcChanges[n]}}

\* the source change whose content of the in-view file the source workspace
\* holds after 'sync @change', 0 when the file does not exist yet
SrcVersion(change) ==
    LET ids == {n \in 1..Len(srcChanges) : n <= change /\ InView(n)}
    IN IF ids = {} THEN 0 ELSE Max(ids)

\* the same for the content the target depot holds
TargVersion ==
    LET holders == {i \in 1..Len(targChanges) :
                      depotmap(localmap(InsideFile)) \in targChanges[i].files}
    IN IF holders = {} THEN 0 ELSE SrcVersion(targChanges[Max(holders)].src)

\* 'p4 reconcile -mead': the workspace files that differ from the depot
reconcile(change) ==
    IF SrcVersion(change) # TargVersion THEN FilesAt(change) ELSE {}

TargChange(id, src, kind, files) ==
    [id |-> id, src |-> src, kind |-> kind, files |-> files]

\* the target change with the given number
TargById(id) ==
    CHOOSE c \in Range(targChanges) : c.id = id

\* getFirstChange and P4Target.replicateFirstChange: reconcile the workspace
\* synced to historical_start_change and submit the default changelist;
\* getFirstChange collects the messages of its sync and never reads them
ReplicateFirstChange ==
    /\ pc = "first"
    /\ \E syncOk \in Outcomes :
       \E ok \in (IF syncOk THEN Outcomes
                 ELSE IF faultsLeft > 1 THEN BOOLEAN ELSE {TRUE}) :
          LET reconciled == reconcile(options.historical_start_change)
              toSubmit == opened \cup reconciled IN
          /\ hist' = IF syncOk THEN hist
                     ELSE [hist EXCEPT !.unsynced =
                              @ \cup {options.historical_start_change}]
          /\ IF reconciled = {}
             THEN
               /\ Goto("firstCounter")
               /\ Spend(syncOk)
               /\ UNCHANGED <<targChanges, targAlloc, opened, pendingOther,
                              cycleVars, num_changes>>
             ELSE
               /\ targAlloc < MaxTarg
               /\ faultsLeft' = faultsLeft - (IF syncOk THEN 0 ELSE 1)
                                           - (IF ok THEN 0 ELSE 1)
               /\ targAlloc' = targAlloc + 1
               /\ opened' = {}
               /\ IF ok
                  THEN /\ targChanges' = Append(targChanges,
                              TargChange(targAlloc + 1,
                                         options.historical_start_change,
                                         "first", toSubmit))
                       /\ obs' = [obs EXCEPT
                             !.hadFiles = TRUE,
                             !.submitted = options.historical_start_change]
                       /\ Goto("firstCounter")
                       /\ UNCHANGED <<pendingOther, counterVal, changes, cur,
                                      fileRevs, filesToIgnore, newChangeId,
                                      changesTransferred, num_changes>>
                  ELSE /\ pendingOther' = pendingOther \cup toSubmit
                       /\ Raise("Exception")
                       /\ UNCHANGED targChanges
    /\ UNCHANGED <<envVars, counter, mapChg, mapChgFiles, mapOldFiles,
                   mapRows, mapHeader, options, endPassed, connected>>

\* replicate_changes: setCounter(historical_start_change) and the removal of
\* the first change when it is the historical start change
SetCounterFirst ==
    /\ pc = "firstCounter"
    /\ counter' = options.historical_start_change
    /\ changes' = IF changes # <<>>
                     /\ Head(changes) = options.historical_start_change
                  THEN Tail(changes) ELSE changes
    /\ obs' = EmptyObs
    /\ Goto("batch")
    /\ UNCHANGED <<serverVars, targChanges, targAlloc, opened, pendingOther,
                   mapChg, mapChgFiles, mapOldFiles, mapRows, mapHeader,
                   options, endPassed, counterVal, cur, fileRevs,
                   filesToIgnore, newChangeId, changesTransferred,
                   num_changes, connected, hist>>

\* P4Target.initChangeMapFile: create the file with its header when the
\* target does not know it, then fetch_change/save_change a new pending
\* change (it takes every file of the default changelist) and reopen the
\* change-map file in it
initChangeMapFile ==
    /\ targAlloc < MaxTarg
    /\ mapHeader' = IF MapFileInDepot \/ mapChg # None
                    THEN mapHeader ELSE mapHeader + 1
    /\ targAlloc' = targAlloc + 1
    /\ mapChg' = targAlloc + 1
    /\ mapOldFiles' = mapOldFiles \cup mapChgFiles
    /\ mapChgFiles' = opened
    /\ opened' = {}

\* replicate_changes: 'if len(changes) > 0', then initChangeMapFile and
\* revertOpenedFiles; with no changes the connections are closed and the
\* cycle returns 0
BatchBegin ==
    /\ pc = "batch"
    /\ IF changes = <<>>
       THEN /\ Goto("after")
            /\ num_changes' = changesTransferred
            /\ connected' = {}
            /\ UNCHANGED <<targAlloc, opened, pendingOther, mapChg,
                           mapChgFiles, mapOldFiles, mapHeader>>
       ELSE /\ Goto("change")
            /\ UNCHANGED <<num_changes, connected>>
            /\ IF options.change_map_file
               THEN \* revertOpenedFiles reverts the numbered pending changes
                    \* that are not change-map changes
                    /\ initChangeMapFile
                    /\ pendingOther' = {}
               ELSE \* revertOpenedFiles: revert //client/...
                    /\ opened' = {}
                    /\ pendingOther' = {}
                    /\ UNCHANGED <<targAlloc, mapChg, mapChgFiles,
                                   mapOldFiles, mapHeader>>
    /\ UNCHANGED <<serverVars, counter, targChanges, mapRows, cycleVars,
                   options, endPassed, hist>>

\* replicate_changes: head of the loop over changes (the end-datetime test
\* and P4Source.getChange), or the end of the loop
NextChange ==
    /\ pc = "change"
    /\ IF changes = <<>>
       THEN /\ Goto("submitMap")
            /\ UNCHANGED <<cycleVars, num_changes, faultsLeft, hist>>
       ELSE IF options.end_datetime /\ endPassed
       THEN /\ Goto("after")
            /\ num_changes' = changesTransferred
            /\ UNCHANGED <<cycleVars, faultsLeft, hist>>
       ELSE \E syncOk \in Outcomes :
               /\ Spend(syncOk)
               /\ IF syncOk
                  THEN /\ cur' = Head(changes)
                       /\ fileRevs' = getChange(Head(changes))
                       /\ filesToIgnore' = {}
                       /\ newChangeId' = None
                       /\ obs' = EmptyObs
                       /\ hist' = [hist EXCEPT !.failed = None]
                       /\ Goto("replay")
                       /\ UNCHANGED <<counterVal, changes,
                                      changesTransferred, num_changes>>
                  ELSE \* abortIfUnsyncableUTF16FilesExist
                       /\ Raise("P4TException")
                       /\ hist' = [hist EXCEPT !.unsynced =
                                      @ \cup {Head(changes)}]
    /\ UNCHANGED <<envVars, targetVars, options, endPassed, connected>>

\* P4Target.replicateChange, first part: processChangeRevs opens one target
\* file per revision, except the revisions it records in filesToIgnore; a
\* revision whose action it does not know raises P4TLogicException
ProcessChangeRevs ==
    /\ pc = "replay"
    /\ \E knownAction \in (IF fileRevs # {} THEN Outcomes ELSE {TRUE}) :
          IF knownAction
          THEN /\ \E ign \in (IF faultsLeft > 0 THEN SUBSET fileRevs
                                ELSE {{}}) :
                     /\ Spend(ign = {})
                     /\ filesToIgnore' = ign
                     /\ opened' = opened \cup
                           ({depotmap(l) : l \in fileRevs \ ign}
                               \ (pendingOther \cup mapChgFiles
                                      \cup mapOldFiles))
               /\ Goto("submit")
               /\ UNCHANGED <<counterVal, changes, cur, fileRevs,
                              newChangeId, changesTransferred, num_changes,
                              obs>>
          ELSE /\ Spend(FALSE)
               /\ Raise("P4TException")
               /\ UNCHANGED opened
    /\ UNCHANGED <<envVars, counter, targChanges, targAlloc, pendingOther,
                   mapChg, mapChgFiles, mapOldFiles, mapRows, mapHeader,
                   options, endPassed, connected, hist>>

\* P4Target.replicateChange, second part: 'p4 opened', fetch_change and
\* save_submit of the default changelist
SubmitChange ==
    /\ pc = "submit"
    /\ IF AllOpened = {}
       THEN /\ Goto("validate")
            /\ UNCHANGED <<targChanges, targAlloc, opened, pendingOther,
                           cycleVars, num_changes, faultsLeft, hist>>
       ELSE IF opened = {}
       THEN \* nothing in the default changelist: the submit fails
            /\ Raise("Exception")
            /\ hist' = [hist EXCEPT !.failed = cur]
            /\ UNCHANGED <<targChanges, targAlloc, opened, pendingOther,
                           faultsLeft>>
       ELSE /\ targAlloc < MaxTarg
            /\ targAlloc' = targAlloc + 1
            /\ opened' = {}
            /\ \E ok \in Outcomes :
                  /\ Spend(ok)
                  /\ IF ok
                     THEN /\ targChanges' = Append(targChanges,
                                 TargChange(targAlloc + 1, cur, "change",
                                            opened))
                          /\ newChangeId' = targAlloc + 1
                          /\ obs' = [obs EXCEPT !.hadFiles = TRUE,
                                                !.submitted = cur]
                          /\ Goto("validate")
                          /\ UNCHANGED <<pendingOther, counterVal, changes,
                                         cur, fileRevs, filesToIgnore,
                                         changesTransferred, num_changes,
                                         hist>>
                     ELSE /\ pendingOther' = pendingOther \cup opened
                          /\ Raise("Exception")
                          /\ hist' = [hist EXCEPT !.failed = cur]
                          /\ UNCHANGED targChanges
    /\ UNCHANGED <<envVars, counter, mapChg, mapChgFiles, mapOldFiles,
                   mapRows, mapHeader, options, endPassed, connected>>

\* ChangelistComparer.listsEqual on the local files; contentEqual is the
\* verdict of ChangeRevision.__eq__ on the files present on both sides
listsEqual(srclist, targlist, ignore, contentEqual) ==
    LET srcfiles == srclist \ ignore
        diffs == srcfiles \ targlist
    IN IF diffs # {} THEN FALSE
       ELSE srcfiles = {} \/ contentEqual

\* validateSubmittedChange: 'if not result[0]' raises P4TLogicException
\* unless ignore_errors is set
raisesLogicExceptionNever(result) == FALSE

raisesLogicException(result) == ~result /\ ~options.ignore_errors

\* P4Target.replicateChange, last part: validateSubmittedChange
ValidateSubmittedChange ==
    /\ pc = "validate"
    /\ \E contentEqual \in Outcomes :
          LET targFileRevs ==
                 IF newChangeId # None
                 THEN {targLocal(d) : d \in TargById(newChangeId).files}
                          \ {NoPath}
                 ELSE {}
              result == listsEqual(fileRevs, targFileRevs, filesToIgnore,
                                   contentEqual)
          IN /\ Spend(contentEqual)
             /\ IF raisesLogicException(result)
                   THEN /\ Raise("P4TException")
                        /\ UNCHANGED hist
                   ELSE /\ Goto("setCounter")
                        /\ obs' = [obs EXCEPT !.checked = TRUE,
                                              !.accepted = result]
                        /\ hist' = [hist EXCEPT
                              !.runDone = @ + 1,
                              !.returned = @ \cup {cur}]
                        /\ UNCHANGED <<counterVal, changes, cur, fileRevs,
                                       filesToIgnore, newChangeId,
                                       changesTransferred, num_changes>>
    /\ UNCHANGED <<envVars, targetVars, options, endPassed, connected>>

\* replicate_changes: self.target.setCounter(change['change'])
SetCounter ==
    /\ pc = "setCounter"
    /\ counter' = cur
    /\ Goto("updateMap")
    /\ UNCHANGED <<serverVars, targChanges, targAlloc, opened, pendingOther,
                   mapChg, mapChgFiles, mapOldFiles, mapRows, mapHeader,
                   cycleVars, options, endPassed, num_changes, connected,
                   hist>>

\* updateChangeMap opening the file with "w" instead of "a"
updateChangeMapTruncates(rows, sourceChangeNo, targetChangeNo) ==
    IF ~options.change_map_file THEN rows
    ELSE <<<<sourceChangeNo, targetChangeNo>>>>

\* P4Target.updateChangeMap
updateChangeMap(rows, sourceChangeNo, targetChangeNo) ==
    IF ~options.change_map_file THEN rows
    ELSE Append(rows, <<sourceChangeNo, targetChangeNo>>)

\* replicate_changes: updateChangeMap, the workspace tidy-up and
\* changesTransferred += 1
UpdateChangeMap ==
    /\ pc = "updateMap"
    /\ mapRows' = updateChangeMap(mapRows, cur, newChangeId)
    /\ changesTransferred' = changesTransferred + 1
    /\ changes' = Tail(changes)
    /\ Goto("change")
    /\ UNCHANGED <<serverVars, counter, targChanges, targAlloc, opened,
                   pendingOther, mapChg, mapChgFiles, mapOldFiles, mapHeader,
                   options, endPassed, counterVal, cur, fileRevs,
                   filesToIgnore, newChangeId, num_changes, connected, obs,
                   hist>>

\* replicate_changes: submitChangeMap after the loop, the two disconnects
\* and 'return changesTransferred'
SubmitChangeMap ==
    /\ pc = "submitMap"
    /\ IF ~options.change_map_file
       THEN /\ Goto("after")
            /\ num_changes' = changesTransferred
            /\ connected' = {}
            /\ UNCHANGED <<targChanges, targAlloc, mapChg, mapChgFiles,
                           cycleVars, faultsLeft>>
       ELSE /\ (IF mapChg = targAlloc THEN TRUE ELSE targAlloc < MaxTarg)
            /\ \E ok \in Outcomes :
                  /\ Spend(ok)
                  /\ IF ok
                     THEN LET id == IF mapChg = targAlloc THEN mapChg
                                    ELSE targAlloc + 1
                          IN /\ targChanges' = Append(targChanges,
                                    TargChange(id, None, "map",
                                               {MapFilePath} \cup mapChgFiles))
                             /\ targAlloc' = id
                             /\ mapChg' = None
                             /\ mapChgFiles' = {}
                             /\ Goto("after")
                             /\ num_changes' = changesTransferred
                             /\ connected' = {}
                             /\ UNCHANGED cycleVars
                     ELSE /\ Raise("Exception")
                          /\ UNCHANGED <<targChanges, targAlloc, mapChg,
                                         mapChgFiles, connected>>
    /\ UNCHANGED <<envVars, counter, opened, pendingOther, mapOldFiles,
                   mapRows, mapHeader, options, endPassed, hist>>

\* replicate: the statements after replicate_changes returned, up to the
\* test of the while loop
AfterCycle ==
    /\ pc = "after"
    /\ LET finished ==
              IF batchFull THEN options.notransfer
              ELSE IF ~options.repeat THEN TRUE
              ELSE options.notransfer
                   \/ (options.end_datetime /\ endPassed)
                   \/ controlled_sleep
       IN IF finished THEN Return(0)
          ELSE Goto("loop") /\ num_changes' = 0 /\ ResetCycle
    /\ UNCHANGED <<serverVars, targetVars, options, endPassed, connected,
                   hist>>

\* replicate, end of the second except clause: the sleep on error; what
\* controlled_sleep returns is not used, and the while loop goes round
SleepOnError ==
    /\ pc = "errorSleep"
    /\ LET interrupted == controlled_sleep
       IN Goto("loop")
    /\ UNCHANGED <<serverVars, targetVars, cycleVars, options, endPassed,
                   num_changes, connected, hist>>

\* the process is killed
Kill ==
    /\ pc # "idle"
    /\ Return(2)
    /\ connected' = {}
    /\ UNCHANGED <<serverVars, targetVars, options, endPassed, hist>>

Next ==
    \/ EditConfig
    \/ Tick
    \/ TouchStopFile
    \/ Start
    \/ SetupReplicate
    \/ CycleBegin
    \/ ReplicateFirstChange
    \/ SetCounterFirst
    \/ BatchBegin
    \/ NextChange
    \/ ProcessChangeRevs
    \/ SubmitChange
    \/ ValidateSubmittedChange
    \/ SetCounter
    \/ UpdateChangeMap
    \/ SubmitChangeMap
    \/ AfterCycle
    \/ SleepOnError
    \/ Kill

Spec == Init /\ [][Next]_vars

SpecRestart == InitRestart /\ [][Next]_vars

\* ------------------------------------------- one source change with moves
\* def specialMovesSupported
specialMovesSupportedNever == FALSE

specialMovesSupported == VersionGreater(sourceP4DVersion, <<2021, 0>>)

\* ChangeRevision of a move revision: integFile is the depot path of its
\* 'moved from' integration and integLocal that path under localmap
ChangeRevision(depotFile, localFile, action, integFile, integLocal) ==
    [depotFile |-> depotFile, localFile |-> localFile, action |-> action,
     integFile |-> integFile, integLocal |-> integLocal]

\* MoveTracker.trackAdd
trackAdd(t, chRev, deleteDepotFile) ==
    [t EXCEPT !.adds = (deleteDepotFile :> chRev) @@ @]

\* MoveTracker.trackDelete
trackDelete(t, chRev) ==
    [t EXCEPT !.deletes = (chRev.depotFile :> chRev) @@ @]

\* MoveTracker.getMoves: results and specialMoves
getMoves(t) ==
    LET matched == DOMAIN t.adds \cap DOMAIN t.deletes
        orphans == DOMAIN t.adds \ DOMAIN t.deletes
        adds == [k \in DOMAIN t.adds |->
                    IF k \in orphans /\ ~specialMovesSupported
                    THEN [t.adds[k] EXCEPT !.action = "add"]
                    ELSE t.adds[k]]
        deletes == [k \in DOMAIN t.deletes \ matched |->
                       [t.deletes[k] EXCEPT !.action = "delete"]]
    IN [results |-> Values(adds) \cup Values(deletes),
        specialMoves |-> IF specialMovesSupported
                         THEN {t.adds[k] : k \in orphans} ELSE {}]

\* the tracker after trackDelete for every revision of revs
RECURSIVE TrackDeletes(_, _)
TrackDeletes(t, revs) ==
    IF revs = {} THEN t
    ELSE LET r == CHOOSE x \in revs : TRUE
         IN TrackDeletes(trackDelete(t, r), revs \ {r})

\* the tracker after trackAdd for every revision of revs
RECURSIVE TrackAdds(_, _)
TrackAdds(t, revs) ==
    IF revs = {} THEN t
    ELSE LET r == CHOOSE x \in revs : TRUE
         IN TrackAdds(trackAdd(t, r, r.integFile), revs \ {r})

\* the sets of moves one change may hold: no file takes part in two moves
MoveSets ==
    {ms \in SUBSET {m \in MoveFiles \X MoveFiles : m[1] # m[2]} :
        \A m1, m2 \in ms : m1 # m2 => {m1[1], m1[2]} \cap {m2[1], m2[2]} = {}}

\* a source change whose revisions are moves is about to be replicated; the
\* target holds every in-view file that ignore_files does not match
InitMoves ==
    /\ InitState
    /\ srcChanges = <<>>
    /\ config = ValidConfig
    /\ options = DefaultOptions
    /\ runsLeft = 0
    /\ faultsLeft = 0
    /\ mvPc = "describe"
    /\ mvChange \in MoveSets
    /\ sourceP4DVersion \in Versions
    /\ re_ignore_files \in SUBSET {localmap(InsideFile), localmap(InsideFileB)}
    /\ mvTracked = EmptyTracker
    /\ mvFileRevs = {}
    /\ mvIgnored = {}
    /\ mvTarget = {}
    /\ mvAccepted = FALSE
    /\ NoDetail

\* P4Source.getChange on the move revisions: move/delete revisions in the
\* view are tracked in the first loop, move/add revisions in the view after
\* the filelog call, then getMoves; processSpecialMoveRevs keeps no special
\* move that has not also a 'copy from' integration
GetChangeMoves ==
    /\ mvPc = "describe"
    /\ LET dels == {ChangeRevision(m[1], localmap(m[1]), "move/delete",
                                   NoPath, NoPath) :
                       m \in {x \in mvChange : localmap(x[1]) # NoPath}}
           adds == {ChangeRevision(m[2], localmap(m[2]), "move/add",
                                   m[1], localmap(m[1])) :
                       m \in {x \in mvChange : localmap(x[2]) # NoPath}}
           movetracker == TrackAdds(TrackDeletes(EmptyTracker, dels), adds)
       IN /\ mvTracked' = movetracker
          /\ mvFileRevs' = getMoves(movetracker).results
    /\ mvPc' = "replay"
    /\ UNCHANGED <<mvChange, sourceP4DVersion, re_ignore_files, mvIgnored,
                   mvTarget, mvAccepted>>
    /\ UNCHANGED <<schedulerVars, detailVars>>

\* P4Target.ignoreFile
ignoreFile(fname) == fname \in re_ignore_files

\* the file is in the target depot: the changes before this one were
\* replicated under the same ignore_files
OnTarget(localFile) == ~ignoreFile(localFile)

\* moveAdd that never finds the 'moved from' file in the view
moveAddAsAdd(f) ==
    {ChangeRevision(depotmap(f.localFile), f.localFile, "add", NoPath,
                    NoPath)}

\* P4Target.moveAdd: the revisions 'p4 move' or 'p4 add' opens
moveAdd(f) ==
    IF f.integLocal # NoPath
    THEN {ChangeRevision(depotmap(f.localFile), f.localFile, "move/add",
                         depotmap(f.integLocal), f.integLocal),
          ChangeRevision(depotmap(f.integLocal), f.integLocal, "move/delete",
                         NoPath, NoPath)}
    ELSE moveAddAsAdd(f)

\* P4Target.replicateDelete
replicateDelete(f) ==
    IF OnTarget(f.localFile)
    THEN {ChangeRevision(depotmap(f.localFile), f.localFile, "delete",
                         NoPath, NoPath)}
    ELSE {}

\* P4Target.replicateChange on the move revisions: processChangeRevs and the
\* submit; 'p4 move' of a file the target does not hold raises
ProcessMoveRevs ==
    /\ mvPc = "replay"
    /\ LET ignored == {f \in mvFileRevs : ignoreFile(f.localFile)}
           replayed == mvFileRevs \ ignored
           moveFails == \E f \in replayed :
                           /\ f.action \in {"move/add", "add"}
                           /\ f.integLocal # NoPath
                           /\ ~OnTarget(f.integLocal)
           opened_ == UNION {IF f.action \in {"move/add", "add"}
                             THEN moveAdd(f)
                             ELSE replicateDelete(f) : f \in replayed}
       IN IF moveFails
          THEN /\ mvPc' = "failed"
               /\ UNCHANGED <<mvIgnored, mvTarget>>
          ELSE /\ mvPc' = "validate"
               /\ mvIgnored' =
                     {f.localFile : f \in ignored}
                        \cup {f.localFile :
                                f \in {g \in replayed :
                                         /\ g.action = "delete"
                                         /\ ~OnTarget(g.localFile)}}
               /\ mvTarget' = opened_
    /\ UNCHANGED <<mvChange, sourceP4DVersion, re_ignore_files, mvTracked,
                   mvFileRevs, mvAccepted>>
    /\ UNCHANGED <<schedulerVars, detailVars>>

\* P4Target.validateSubmittedChange on the submitted move revisions
ValidateMoves ==
    /\ mvPc = "validate"
    /\ LET dels == {r \in mvTarget : r.action = "move/delete"}
           adds == {r \in mvTarget : r.action = "move/add"}
           others == mvTarget \ (dels \cup adds)
           movetracker == TrackAdds(TrackDeletes(EmptyTracker, dels), adds)
           targFileRevs == others \cup getMoves(movetracker).results
       IN mvAccepted' =
             listsEqual({f.localFile : f \in mvFileRevs},
                        {f.localFile : f \in targFileRevs}, mvIgnored, TRUE)
    /\ mvPc' = "done"
    /\ UNCHANGED <<mvChange, sourceP4DVersion, re_ignore_files, mvTracked,
                   mvFileRevs, mvIgnored, mvTarget>>
    /\ UNCHANGED <<schedulerVars, detailVars>>

NextMoves ==
    \/ GetChangeMoves
    \/ ProcessMoveRevs
    \/ ValidateMoves

SpecMoves == InitMoves /\ [][NextMoves]_vars

\* ------------------------------------------------------------- properties
\* the steps in which replicate_changes calls setCounter
SetCounterStep == pc = "setCounter" /\ pc' = "updateMap"

SetCounterFirstStep == pc = "firstCounter" /\ pc' = "batch"

\* a step in which the submit or the check raises
RaiseStep ==
    /\ pc \in {"first", "submit", "validate"}
    /\ pc' \in {"idle", "errorSleep"}
    /\ exitCode' # 2

SubmittedFor(n) ==
    {i \in 1..Len(targChanges) :
        targChanges[i].kind = "change" /\ targChanges[i].src = n}

\* C2: over the whole history of runs, with the process killed and started
\* again at any point, no source change is submitted to the target more
\* than once.
C2_NoDuplicateSubmit ==
    \A n \in 1..Len(srcChanges) : Cardinality(SubmittedFor(n)) <= 1

\* C3: the stored counter never decreases, whatever the sequence of cycles,
\* restarts and values of historical_start_change.
C3_CounterNeverDecreases == [][counter' >= counter]_vars

\* the list is in strictly increasing order, above ctr, and holds every
\* in-view change between ctr and its last element
AscendingNoSkip(list, ctr) ==
    /\ \A i \in 1..Len(list) : list[i] > ctr
    /\ \A i \in 1..(Len(list) - 1) : list[i] < list[i + 1]
    /\ \A m \in InViewIds(ctr + 1) :
          list # <<>> /\ m <= list[Len(list)] => m \in Range(list)

\* C4: within a cycle replicateChange is called on source changes in
\* strictly increasing order, every id is above the counter read at the
\* start of the cycle, no in-view change between two replicated ids is
\* skipped, and missingChanges returns such a list on both server paths.
C4_AscendingOrder ==
    [][/\ (pc = "loop" /\ pc' \in {"first", "batch", "after"}) =>
             AscendingNoSkip(changes', counterVal')
       /\ (pc = "change" /\ pc' = "replay") =>
             /\ cur' > counterVal
             /\ cur' > cur
             /\ cur # None => \A m \in InViewIds(cur + 1) : m >= cur']_vars

\* C4 witness: on the old-server path the second change of a cycle is in
\* hand and an out-of-view change lies below it
C4_Witness ==
    /\ pc = "replay"
    /\ ~options.newServer
    /\ changesTransferred = 1
    /\ cur - counterVal > 2

\* the rows of the change-map file for source change n
RowsFor(n) == {i \in 1..Len(mapRows) : mapRows[i][1] = n}

\* C5: for every source change n replicateChange returned for, once the
\* iteration is over the counter is at least n and, with change_map_file,
\* the change map holds exactly one row for n, naming the target change
\* submitted for n.
C5_ReturnedIsRecorded ==
    pc \notin {"replay", "submit", "validate", "setCounter", "updateMap"} =>
       \A n \in hist.returned :
          /\ counter >= n
          /\ options.change_map_file =>
                /\ Cardinality(RowsFor(n)) = 1
                /\ \A i \in RowsFor(n) :
                      \E j \in SubmittedFor(n) :
                         targChanges[j].id = mapRows[i][2]

\* C6: without --repeat, --maximum and --end-datetime and with no error, a
\* call of replicate() that returned has replicated every pending source
\* change: no in-view change above the counter is left.
C6_AllPendingReplicated ==
    /\ pc = "idle"
    /\ hist.ran
    /\ exitCode = 0
    /\ faultsLeft = MaxFaults
    /\ ~options.repeat
    /\ options.maximum = 0
    /\ ~options.end_datetime
    /\ ~options.notransfer
    => InViewIds(counter + 1) = {}

\* C7: with --maximum M and without --repeat one call of replicate()
\* replicates at most M source changes, whatever change_batch_size is.
C7_AtMostMaximum ==
    options.maximum # 0 /\ ~options.repeat =>
       hist.runDone <= options.maximum

\* the target paths of the in-view files of source change n
MappedInView(n) ==
    {depotmap(localmap(f)) : f \in {g \in srcChanges[n] : localmap(g) # NoPath}}

\* every target change made for a source change holds exactly the mapped
\* paths of its in-view revisions, and is made for an in-view change
OnlyInViewReplayed ==
    \A i \in 1..Len(targChanges) :
       targChanges[i].kind = "change" =>
          /\ InView(targChanges[i].src)
          /\ targChanges[i].files = MappedInView(targChanges[i].src)

\* C8, as stated: only the in-view revisions of a change are replayed and
\* the target change holds only their mapped paths; a source change with
\* no in-view file creates no target change and never becomes the counter.
C8_OutOfViewNeverCounted ==
    /\ []OnlyInViewReplayed
    /\ [][counter' # counter => InView(counter')]_vars

\* C8, amended: the same, except that the counter is set to an out-of-view
\* change when that change is the configured historical_start_change.
C8_OutOfViewOnlyAsHistoricalStart ==
    /\ []OnlyInViewReplayed
    /\ [][counter' # counter /\ ~InView(counter') =>
             /\ SetCounterFirstStep
             /\ counter' = options.historical_start_change]_vars

\* C8 witness: a change with files inside and outside the view was
\* replicated after an out-of-view change was passed over
C8_Witness ==
    \E i \in 1..Len(targChanges) :
       /\ targChanges[i].kind = "change"
       /\ OutsideFile \in srcChanges[targChanges[i].src]
       /\ \E m \in 1..Len(srcChanges) :
             m < targChanges[i].src /\ ~InView(m)

\* C9: a --notransfer run writes nothing on the target (counter, opened
\* files, submitted and pending changes, change map), and two consecutive
\* --notransfer runs under one configuration report the same pending
\* changes.
C9_NotransferWritesNothing ==
    /\ [][options.notransfer => UNCHANGED targetVars]_vars
    /\ [](/\ options.notransfer
          /\ hist.prevReport # <<>>
          /\ hist.lastReport[1] = hist.prevReport[1]
          => hist.lastReport[2] = hist.prevReport[2])

\* C9 witness: the second of two --notransfer runs has reported a pending
\* change
C9_Witness ==
    /\ options.notransfer
    /\ pc = "after"
    /\ hist.prevReport # <<>>
    /\ hist.lastReport[2] # {}

\* C10: with a configuration error replicate() returns 1, the counter is
\* not written and nothing is replayed on the target.
C10_ConfigErrorReturns1 ==
    config # ValidConfig =>
       /\ counter = 0
       /\ targChanges = <<>>
       /\ targAlloc = 0
       /\ opened = {}
       /\ mapRows = <<>>
       /\ pc \in {"idle", "setup"}
       /\ pc = "idle" /\ hist.ran /\ exitCode # 2 => exitCode = 1

\* C10 witness: replicate() has returned 1 on a configuration error
C10_Witness ==
    /\ config # ValidConfig
    /\ hist.ran
    /\ pc = "idle"
    /\ exitCode = 1

\* a step in which processChangeRevs met a revision whose action it does
\* not know
UnknownActionStep ==
    /\ pc = "replay"
    /\ pc' \notin {"replay", "submit"}
    /\ exitCode' # 2

\* a step in which validateSubmittedChange found the submitted change
\* different from the source change
CheckFailedStep ==
    /\ pc = "validate"
    /\ pc' # "validate"
    /\ exitCode' # 2
    /\ pc' = "setCounter" => ~obs'.accepted

\* C11 as stated: every logic error, the failed check and the unknown
\* revision action alike, ends the run with exit code 1 by default, and
\* with ignore_errors replication continues after each of them.
C11_EveryLogicErrorDemoted ==
    [][UnknownActionStep \/ CheckFailedStep =>
          IF options.ignore_errors
          THEN pc' \in {"submit", "setCounter"}
          ELSE pc' = "idle" /\ exitCode' = 1]_vars

\* C11: a revision with an unknown action ends the run with exit code 1
\* whether ignore_errors is set or not; a failed check of the submitted
\* change ends the run with exit code 1 by default, and with ignore_errors
\* replication continues with setCounter.
C11_OnlyComparisonErrorsDemoted ==
    [][/\ UnknownActionStep => pc' = "idle" /\ exitCode' = 1
       /\ CheckFailedStep =>
             IF options.ignore_errors
             THEN pc' = "setCounter"
             ELSE pc' = "idle" /\ exitCode' = 1]_vars

\* C11 witness: under ignore_errors a change whose check failed goes on to
\* setCounter
C11_Witness ==
    /\ options.ignore_errors
    /\ pc = "setCounter"
    /\ obs.checked
    /\ ~obs.accepted

\* a step in which a target command raised an exception that is not a
\* P4TException: the submit of replicateFirstChange or of replicateChange,
\* or submitChangeMap
ExceptionStep ==
    /\ exitCode' # 2
    /\ \/ pc = "first" /\ pc' \notin {"first", "firstCounter"}
       \/ pc = "submit" /\ pc' \notin {"submit", "validate"}
       \/ pc = "submitMap" /\ pc' \notin {"submitMap", "after"}

C13_StopFileEndsRun ==
    [][stopFile /\ SleepAtHand /\ pc' # pc => pc' = "idle"]_vars

\* a step that starts the replication of a source change: the head of the
\* loop over the changes, or getFirstChange and replicateFirstChange for
\* the historical start change
StartsChange ==
    \/ pc = "change" /\ pc' = "replay"
    \/ pc = "first" /\ pc' # "first" /\ exitCode' # 2

\* C14: once the end-datetime has passed no source change is started.
C14_NoChangeAfterEnd ==
    [][options.end_datetime /\ endPassed => ~StartsChange]_vars

\* C15: whenever replicate() has returned, no source or target connection
\* is open.
C15_NoConnectionAtReturn ==
    pc = "idle" => connected = {}

\* the files the target client has opened besides the change-map file
StaleOpened == opened \cup pendingOther \cup mapChgFiles \cup mapOldFiles

\* a step that opens or submits files on the target: processChangeRevs with
\* a revision to replay, or the submit of replicateFirstChange
OpensOnTarget ==
    \/ pc = "replay" /\ pc' = "submit" /\ fileRevs \ filesToIgnore' # {}
    \/ pc = "first" /\ targAlloc' # targAlloc

\* C16: when a cycle opens or submits its first file on the target, no file
\* an earlier aborted run or cycle left opened is still opened, in the
\* default changelist or in a numbered pending change.
C16_StaleFilesReverted ==
    [][OpensOnTarget => StaleOpened = {}]_vars

\* C17: with change_map_file, when replicate_changes has returned from a
\* cycle that replicated at least one change, the change-map file has been
\* submitted and is no longer opened, so every row appended in the cycle is
\* in the depot.
C17_MapSubmittedAfterCycle ==
    pc = "after" /\ options.change_map_file /\ num_changes > 0
        => mapChg = None

MovesResult == getMoves(mvTracked)

\* the tracked move/add revisions with and without a tracked move/delete
\* for their 'moved from' path
MatchedAdds == DOMAIN mvTracked.adds \cap DOMAIN mvTracked.deletes

OrphanAdds == DOMAIN mvTracked.adds \ DOMAIN mvTracked.deletes

\* the revision has the given action in the results of getMoves
ResultHas(depotFile, action) ==
    \E r \in MovesResult.results :
        r.depotFile = depotFile /\ r.action = action

\* the source server is 2021.1 or later
SourceHasSpecialMoves == VersionGreater(sourceP4DVersion, <<2021, 0>>)

\* C19 as stated: after getMoves a tracked move/add has action move/add
\* only if a move/delete for its 'moved from' path was tracked, every other
\* tracked move/add has action add, and every tracked move/delete without a
\* tracked move/add has action delete.
C19_OrphanAddAlwaysDowngraded ==
    mvPc \notin {"none", "describe"} =>
       /\ \A k \in MatchedAdds :
             ResultHas(mvTracked.adds[k].depotFile, "move/add")
       /\ \A k \in OrphanAdds :
             ResultHas(mvTracked.adds[k].depotFile, "add")
       /\ \A k \in DOMAIN mvTracked.deletes \ MatchedAdds :
             ResultHas(k, "delete")

\* C19: after getMoves a tracked move/add whose 'moved from' path has a
\* tracked move/delete keeps action move/add and that move/delete is not in
\* the results; a tracked move/add without one has action add when the
\* source server is older than 2021.1, and otherwise keeps action move/add
\* and is returned in specialMoves; every tracked move/delete without a
\* tracked move/add has action delete.
C19_MovesAfterGetMoves ==
    mvPc \notin {"none", "describe"} =>
       /\ \A k \in MatchedAdds :
             /\ ResultHas(mvTracked.adds[k].depotFile, "move/add")
             /\ \A r \in MovesResult.results : r.depotFile # k
             /\ mvTracked.adds[k] \notin MovesResult.specialMoves
       /\ \A k \in OrphanAdds :
             IF SourceHasSpecialMoves
             THEN /\ ResultHas(mvTracked.adds[k].depotFile, "move/add")
                  /\ mvTracked.adds[k] \in MovesResult.specialMoves
             ELSE /\ ResultHas(mvTracked.adds[k].depotFile, "add")
                  /\ MovesResult.specialMoves = {}
       /\ \A k \in DOMAIN mvTracked.deletes \ MatchedAdds :
             ResultHas(k, "delete")

\* C19 witness: getMoves has run on a change with a matched move and a
\* move/add without its move/delete, from a source server before 2021.1
C19_Witness ==
    /\ mvPc = "replay"
    /\ ~SourceHasSpecialMoves
    /\ MatchedAdds # {}
    /\ OrphanAdds # {}
    /\ mvFileRevs = MovesResult.results

\* C20: when validateSubmittedChange accepts the target change, every move
\* of the source change with both paths in the view is in the target change
\* as a move/add and a move/delete on the corresponding target paths.
C20_MovePairsReplicated ==
    mvPc = "done" /\ mvAccepted =>
       \A m \in mvChange :
          localmap(m[1]) # NoPath /\ localmap(m[2]) # NoPath =>
             /\ \E r \in mvTarget :
                   /\ r.depotFile = depotmap(localmap(m[2]))
                   /\ r.action = "move/add"
             /\ \E r \in mvTarget :
                   /\ r.depotFile = depotmap(localmap(m[1]))
                   /\ r.action = "move/delete"

\* ---------------------------------- comparing a submitted change (C21)
purgedDigest == "08F48C3930677CB9C7F42E5248D560D4"

\* the filetypes, the pairs <<fileSize, digest>> and the operating systems
\* of the revisions compared; fileSize 0 and digest "" are the values
\* ChangeRevision.__init__ leaves when the describe record has none
FileTypes == {"text", "ktext", "binary", "xbinary", "binary+x", "utf16"}

FileContents ==
    {<<0, "">>, <<12, "">>, <<11, purgedDigest>>, <<12, "D1">>, <<12, "D2">>,
     <<14, "D1">>, <<17, "D1">>}

ServerOS == {"LINUX26X86_64", "NTX64"}

targetVersion == "LINUX26X86_64"

\* the table canonicalTypes and ChangeRevision.canonicalType
canonicalType(type) ==
    IF type = "xbinary" THEN "binary+x"
    ELSE IF type = "ktext" THEN "text+k"
    ELSE IF type = "xtext" THEN "text+x"
    ELSE IF type = "kxtext" THEN "text+kx"
    ELSE type

\* def isText: re.search("text", ftype)
isText(ftype) == ftype \in {"text", "ktext"}

\* SourceTargetTextComparison.compatible
compatible == sourceVersion = targetVersion

\* def fileContentComparisonPossible; '"k" in ftype' holds for ktext only
fileContentComparisonPossible(ftype) ==
    IF ~isText(ftype) THEN TRUE
    ELSE IF ftype = "ktext" THEN FALSE
    ELSE compatible

\* ChangeRevision.__init__ and setLocalFile for one file of a describe
\* record: a deleted revision takes no fileSize and no digest
DescribedRevision(localFile, action, type, content) ==
    [localFile |-> localFile, action |-> action, type |-> type,
     fileSize |-> IF action \in {"delete", "move/delete"} THEN 0
                  ELSE content[1],
     digest |-> IF action \in {"delete", "move/delete"} THEN ""
                ELSE content[2]]

Abs(i) == IF i < 0 THEN -i ELSE i

\* ChangeRevision.__eq__ with caseSensitive at its default
ChangeRevision_eq(self, other) ==
    IF self.localFile # other.localFile THEN FALSE
    ELSE IF self.action = "purge" \/ other.action = "purge" THEN TRUE
    ELSE IF \/ self.fileSize = 11 /\ self.digest = purgedDigest
            \/ other.fileSize = 11 /\ other.digest = purgedDigest
         THEN TRUE
    ELSE IF fileContentComparisonPossible(self.type)
            /\ <<self.fileSize, self.digest, canonicalType(self.type)>>
                  # <<other.fileSize, other.digest, canonicalType(other.type)>>
         THEN self.type = "utf16"
              /\ Abs(self.fileSize - other.fileSize) < 5
    ELSE TRUE

\* str.lower on the local paths
lower(localFile) ==
    IF localFile = "ws/inside/A" THEN "ws/inside/a" ELSE localFile

\* 'chRev in targfiles' for a set of ChangeRevision: the element with the
\* same hash (the same localFile) is compared with the one looked up
InRevSet(chRev, revs) ==
    \E t \in revs : t.localFile = chRev.localFile /\ ChangeRevision_eq(t, chRev)

\* listsEqual stopping after the comparison of the file names
listsEqualNamesOnly(srcRevs, targRevs, ignore) ==
    LET kept == {r \in srcRevs : r.localFile \notin ignore}
        name(r) == IF case_sensitive THEN r.localFile ELSE lower(r.localFile)
    IN {name(r) : r \in kept} \ {name(t) : t \in targRevs} = {}

\* ChangelistComparer.listsEqual on the revisions: result[0].  No local
\* path of the model holds a wildcard character, so escapeWildCards leaves
\* them as they are.
listsEqualRevs(srcRevs, targRevs, ignore) ==
    LET kept == {r \in srcRevs : r.localFile \notin ignore}
        name(r) == IF case_sensitive THEN r.localFile ELSE lower(r.localFile)
        diffs == {r \in kept : ~InRevSet(r, targRevs)}
        new_diffs == {r \in diffs : r.fileSize # 0 /\ r.digest # ""}
        lowered(r) == [r EXCEPT !.localFile = lower(@)]
        targlookup(r) ==
            CHOOSE t \in targRevs : lower(t.localFile) = lower(r.localFile)
        diffs2 == {r \in diffs :
                     /\ ~ChangeRevision_eq(lowered(r), lowered(targlookup(r)))
                     /\ r.digest # targlookup(r).digest}
    IN IF {name(r) : r \in kept} \ {name(t) : t \in targRevs} # {} THEN FALSE
       ELSE IF diffs = {} THEN TRUE
       ELSE IF new_diffs = {} THEN TRUE
       ELSE IF ~case_sensitive THEN diffs2 = {}
       ELSE FALSE

\* the revisions of the file a in a source change, and in a target change
SourceRevsA ==
    {DescribedRevision("ws/inside/a", action, type, content) :
        action \in {"edit", "delete"}, type \in FileTypes,
        content \in FileContents}
    \cup {DescribedRevision("ws/inside/a", "purge", type, <<12, "D1">>) :
             type \in FileTypes}

TargetRevsA ==
    {DescribedRevision(localFile, action, type, content) :
        localFile \in {"ws/inside/a", "ws/inside/A"},
        action \in {"edit", "delete"}, type \in FileTypes,
        content \in FileContents}

\* the revisions of a second file b: none, the same on both sides,
\* different digests, or missing in the target change
RevsB ==
    LET b(digest) == DescribedRevision("ws/inside/b", "edit", "binary",
                                       <<12, digest>>)
    IN {<<{}, {}>>, <<{b("D1")}, {b("D1")}>>, <<{b("D1")}, {b("D2")}>>,
        <<{b("D1")}, {}>>}

\* a change was submitted on the target and validateSubmittedChange is
\* about to compare it with the revisions of the source change
InitCompare ==
    /\ InitState
    /\ srcChanges = <<>>
    /\ config = ValidConfig
    /\ options = DefaultOptions
    /\ runsLeft = 0
    /\ faultsLeft = 0
    /\ NoMoves
    /\ NoTypes
    /\ NoReplay
    /\ NoCaches
    /\ NoInteg
    /\ NoFurther
    /\ cmpPc = "submitted"
    /\ \E a \in SourceRevsA, ta \in TargetRevsA, b \in RevsB :
          /\ cmpSource = {a} \cup b[1]
          /\ cmpTarget = {ta} \cup b[2]
    /\ cmpIgnored \in {{}, {"ws/inside/b"}}
    /\ case_sensitive \in BOOLEAN
    /\ sourceVersion \in ServerOS

\* P4Target.validateSubmittedChange from the call of listsEqual on
CompareSubmitted ==
    /\ cmpPc = "submitted"
    /\ LET result == listsEqualRevs(cmpSource, cmpTarget, cmpIgnored)
       IN cmpPc' = IF raisesLogicException(result) THEN "raised"
                   ELSE "accepted"
    /\ UNCHANGED <<cmpSource, cmpTarget, cmpIgnored, case_sensitive,
                   sourceVersion>>
    /\ UNCHANGED besideCompare

NextCompare == CompareSubmitted

SpecCompare == InitCompare /\ [][NextCompare]_vars

\* the source revisions validateSubmittedChange compares
ComparedRevs == {r \in cmpSource : r.localFile \notin cmpIgnored}

\* the content comparison is true for the two revisions, whichever of the
\* two it is called on
ContentEqual(r, t) == ChangeRevision_eq(t, r) \/ ChangeRevision_eq(r, t)

\* C21 as stated: whenever validateSubmittedChange accepts a submitted
\* change without ignore_errors, every source revision whose local path is
\* not in the ignore set has a revision with the same path in the target
\* change for which ChangeRevision.__eq__ is true.
C21_AcceptedMeansContentEqual ==
    cmpPc = "accepted" =>
       \A r \in ComparedRevs :
          \E t \in cmpTarget : t.localFile = r.localFile /\ ContentEqual(r, t)

\* the source revisions no revision of the target change with the same
\* path compares equal to
Unequal == {r \in ComparedRevs : ~InRevSet(r, cmpTarget)}

\* C21: whenever validateSubmittedChange accepts a submitted change
\* without ignore_errors, every compared source revision has a revision
\* with the same path in the target change (the same but for the case of
\* its letters when case_sensitive is off), and either __eq__ is true for
\* each of these pairs, or no source revision for which it is false has
\* both a file size and a digest, or case_sensitive is off and each such
\* revision is equal to its target revision once the paths are in lower
\* case or has the same digest.
C21_AcceptedUnlessDigestMissing ==
    cmpPc = "accepted" =>
       /\ \A r \in ComparedRevs :
             \E t \in cmpTarget :
                IF case_sensitive THEN t.localFile = r.localFile
                ELSE lower(t.localFile) = lower(r.localFile)
       /\ \/ Unequal = {}
          \/ \A r \in Unequal : r.fileSize = 0 \/ r.digest = ""
          \/ /\ ~case_sensitive
             /\ \A r \in Unequal :
                   \E t \in cmpTarget :
                      /\ lower(t.localFile) = lower(r.localFile)
                      /\ \/ r.digest = t.digest
                         \/ ChangeRevision_eq(
                               [r EXCEPT !.localFile = lower(@)],
                               [t EXCEPT !.localFile = lower(@)])

\* C21 witness: a change of two files was accepted with case_sensitive on,
\* both source revisions carrying a size and a digest and differing from
\* the target revisions in filetype spelling only
C21_Witness ==
    /\ cmpPc = "accepted"
    /\ case_sensitive
    /\ cmpIgnored = {}
    /\ Cardinality(cmpSource) = 2
    /\ \A r \in cmpSource : r.fileSize # 0 /\ r.digest # ""
    /\ \E r \in cmpSource, t \in cmpTarget :
          r.localFile = t.localFile /\ r.type # t.type /\ r.action = "edit"

\* ------------------------------ the filetype of a replicated file (C22)
\* the filetypes of the source revision and of the file as opened
TypeNames ==
    {"text", "ktext", "kxtext", "text+kx", "binary", "binary+l", "utf16"}

\* fixFileTypes leaving every opened file as it is
fixFileTypesNever(chRev_type, ofile_type) == ofile_type

\* P4Target.fixFileTypes for an opened file that is a revision of the
\* source change: the type the file is opened with afterwards.  A refused
\* 'reopen -t' to a +l type is followed by revert -k, add -t and edit -t
\* with the same type.
fixFileTypes(chRev_type, ofile_type) ==
    IF chRev_type # ofile_type THEN chRev_type ELSE ofile_type

\* P4Target.hasKeyword: ktext, kxtext, or KTEXT matches
hasKeyword(fileType) == fileType \in {"ktext", "kxtext", "text+kx"}

\* P4Target.removeKeyword
removeKeyword(fileType) ==
    IF fileType = "ktext" THEN "text"
    ELSE IF fileType = "kxtext" THEN "xtext"
    ELSE IF fileType = "text+kx" THEN "text+x"
    ELSE fileType

\* P4Target.removeKeywords on the list 'p4 opened' gave before fixFileTypes
\* ran: current is the type the file is opened with now
removeKeywords(openFile_type, current) ==
    IF hasKeyword(openFile_type) THEN removeKeyword(openFile_type)
    ELSE current

\* processChangeRevs has opened the file of one source revision
InitTypes ==
    /\ InitState
    /\ srcChanges = <<>>
    /\ config = ValidConfig
    /\ options = DefaultOptions
    /\ runsLeft = 0
    /\ faultsLeft = 0
    /\ NoMoves
    /\ NoCompare
    /\ NoReplay
    /\ NoCaches
    /\ NoInteg
    /\ NoFurther
    /\ typPc = "opened"
    /\ chRevType \in TypeNames
    /\ ofileType \in TypeNames
    /\ targType = ofileType
    /\ nokeywords \in BOOLEAN
    /\ typIgnored = FALSE

\* replicateChange: 'p4 opened', fixFileTypes and, under --nokeywords,
\* removeKeywords
FixFileTypes ==
    /\ typPc = "opened"
    /\ LET fixed == fixFileTypes(chRevType, ofileType)
       IN targType' = IF nokeywords THEN removeKeywords(ofileType, fixed)
                      ELSE fixed
    /\ typPc' = "submit"
    /\ UNCHANGED <<chRevType, ofileType, nokeywords, typIgnored>>
    /\ UNCHANGED besideTypes

\* replicateChange: save_submit; when the server cannot translate the
\* content of a utf16 file the file is reopened as binary, appended to
\* filesToIgnore and the change submitted again
SubmitTyped ==
    /\ typPc = "submit"
    /\ \E translationFailed \in
             (IF targType = "utf16" THEN BOOLEAN ELSE {FALSE}) :
          IF translationFailed
          THEN targType' = "binary" /\ typIgnored' = TRUE
          ELSE UNCHANGED <<targType, typIgnored>>
    /\ typPc' = "submitted"
    /\ UNCHANGED <<chRevType, ofileType, nokeywords>>
    /\ UNCHANGED besideTypes

NextTypes ==
    \/ FixFileTypes
    \/ SubmitTyped

SpecTypes == InitTypes /\ [][NextTypes]_vars

MaxEdges == 3

\* what the integrations of a revision say in 'how'
Hows == {"add from", "moved from", "copy from", "edit from", "delete from",
         "ignored"}

\* the actions of a revision that is replayed
Actions == {"add", "move/add", "branch", "integrate", "delete", "edit",
            "archive"}

\* the actions getChange asks the filelog of, and so the integrations
FilelogActions == {"branch", "integrate", "add", "delete", "move/add"}

\* P4Source.getChange: an integration and its source under localmap
Integration(how, file) ==
    [how |-> how, file |-> file, localFile |-> localmap(file)]

\* the integrations a revision of InsideFile may carry: from a file in the
\* view, from a file outside of it, or a copy from the file itself
Integrations ==
    {Integration(how, file) : how \in Hows, file \in {InsideFileB, OutsideFile}}
        \cup {Integration("copy from", InsideFile)}

\* the lists of integrations: a file is moved from one file at most
IntegrationLists ==
    {s \in UNION {[1..n -> Integrations] : n \in 0..MaxEdges} :
        Cardinality({i \in DOMAIN s : s[i].how = "moved from"}) <= 1}

\* ChangeRevision.hasIntegrations
hasIntegrations(f) == Len(f.integs) > 0

\* ChangeRevision.numIntegrations
numIntegrations(f) == Len(f.integs)

\* ChangeRevision.getIntegration: the index counts from 0
getIntegration(f, index) == f.integs[index + 1]

\* ChangeRevision.hasMoveIntegrations
hasMoveIntegrations(f) ==
    \E i \in DOMAIN f.integs : f.integs[i].how \in {"moved from", "moved into"}

\* ChangeRevision.hasOnlyMovedFromIntegrations
hasOnlyMovedFromIntegrations(f) ==
    \A i \in DOMAIN f.integs : f.integs[i].how = "moved from"

\* ChangeRevision.hasOnlyIgnoreIntegrations
hasOnlyIgnoreIntegrations(f) ==
    \A i \in DOMAIN f.integs : f.integs[i].how = "ignored"

\* ChangeRevision.localIntegSource, localIntegSyncSource, localIntegSourceFile
localIntegSourceFile(f, index) == getIntegration(f, index).localFile

\* a command on the target: 'from' is the local path of the integration
\* source it names and ind the index of that integration
Cmd(name, ind, from) == [name |-> name, ind |-> ind, from |-> from]

\* a command that names the revision's own file only
NoEdge == -1
Own(name) == Cmd(name, NoEdge, "-")

\* what replaying (a part of) a revision did: the commands, the indexes of
\* the integrations replayed, and whether the file went to filesToIgnore
Did(cmds, edges, ignored) ==
    [issued |-> cmds, edges |-> edges, ignored |-> ignored]

Nothing == Did(<<>>, <<>>, FALSE)

Then(a, b) ==
    Did(a.issued \o b.issued, a.edges \o b.edges, a.ignored \/ b.ignored)

\* P4Target.moveAdd that adds whatever the integrations say
moveAddPlain(file) == Did(<<Own("add -ft")>>, <<>>, FALSE)

\* P4Target.moveAdd: the first 'moved from' integration is moved if its
\* source is in the view; getChange returns no move that has integrations
\* but none 'moved from', so the assert holds
moveAddCmds(file) ==
    LET movedFrom == {ind \in 0..(numIntegrations(file) - 1) :
                         getIntegration(file, ind).how = "moved from"}
        ind == CHOOSE i \in movedFrom : \A j \in movedFrom : i <= j
        source == localIntegSourceFile(file, ind)
    IN IF hasIntegrations(file) /\ source # NoPath
       THEN Did(<<Cmd("sync -f", ind, source), Cmd("edit", ind, source),
                  Cmd("move", ind, source)>>, <<ind>>, FALSE)
       ELSE Did(<<Own("add -ft")>>, <<>>, FALSE)

\* P4Target.replicateDelete that ignores every file not on the client
replicateDeleteIgnoring(targ) ==
    IF targ = "head" THEN Did(<<Own("delete -v")>>, <<>>, FALSE)
    ELSE Did(<<Own("delete -v"), Own("sync -k #1")>>, <<>>, TRUE)

\* P4Target.replicateDelete: 'delete -v' warns that the file is not on the
\* client unless the target holds it at its head; 'sync -k file#1' warns
\* that there is no such file if the target never held it
replicateDeleteCmds(targ) ==
    IF targ = "head" THEN Did(<<Own("delete -v")>>, <<>>, FALSE)
    ELSE IF targ = "never"
    THEN Did(<<Own("delete -v"), Own("sync -k #1")>>, <<>>, TRUE)
    ELSE Did(<<Own("delete -v"), Own("sync -k #1"), Own("delete -v")>>,
             <<>>, FALSE)

\* P4Target.editFrom: the integrate names the integration of index 0
editFrom(file, afterAdd) ==
    (IF afterAdd THEN <<>> ELSE <<Own("sync -f")>>)
        \o <<Cmd("integrate", 0, localIntegSourceFile(file, 0)),
             Own("resolve -ae")>>

\* the loop of replicateIntegration over the integrations ind, ind-1, .., 0
RECURSIVE integrationLoop(_, _, _, _)
integrationLoop(file, afterAdd, startInd, ind) ==
    IF ind < 0 THEN Nothing
    ELSE LET integ == getIntegration(file, ind)
             from == Cmd("integrate", ind, integ.localFile)
             this ==
                 IF ind > startInd THEN Nothing
                 ELSE IF integ.how \in {"add from", "moved from"} THEN Nothing
                 ELSE IF integ.localFile = NoPath THEN Nothing
                 ELSE IF integ.how = "edit from"
                 THEN Did(editFrom(file, afterAdd), <<ind>>, FALSE)
                 ELSE IF integ.how = "delete from"
                 THEN Did(<<from, Own("resolve -at")>>, <<ind>>, FALSE)
                 ELSE Did((IF ~afterAdd /\ file.action # "delete"
                           THEN <<Own("sync -f")>> ELSE <<>>)
                          \o <<from, Own(IF integ.how = "copy from"
                                         THEN "resolve -at"
                                         ELSE "resolve -ay")>>,
                          <<ind>>, FALSE)
         IN Then(this, integrationLoop(file, afterAdd, startInd, ind - 1))

\* P4Target.replicateIntegration
replicateIntegration(file, afterAdd, startInd) ==
    IF /\ ~ignore_integrations
       /\ hasIntegrations(file)
       /\ localIntegSourceFile(file, 0) # NoPath
    THEN integrationLoop(file, afterAdd, startInd, numIntegrations(file) - 1)
    ELSE IF hasIntegrations(file)
            /\ getIntegration(file, 0).how = "delete from"
    THEN Did(<<Own("delete -v")>>, <<>>, FALSE)
    ELSE IF /\ file.action = "delete"
            /\ hasIntegrations(file)
            /\ localIntegSourceFile(file, 0) = NoPath
    THEN Did(<<>>, <<>>, TRUE)
    ELSE Did(<<Own("sync -k"), Own("edit")>>, <<>>, FALSE)

\* the loop of replicateBranch over the integrations ind, ind-1, .., 0
RECURSIVE branchLoop(_, _, _, _)
branchLoop(file, dirty, afterAdd, ind) ==
    IF ind < 0 THEN Nothing
    ELSE LET integ == getIntegration(file, ind)
             ownFile == localmap(InsideFile)
         IN IF integ.how = "add from"
            THEN Then(IF integ.localFile = ownFile \/ numIntegrations(file) > 1
                      THEN Did(<<Cmd("integrate", ind, integ.localFile),
                                 Own("add -ft")>>, <<ind>>, FALSE)
                      ELSE Did(<<Cmd("sync", ind, integ.localFile),
                                 Cmd("add", ind, integ.localFile),
                                 Cmd("move", ind, integ.localFile)>>,
                               <<ind>>, FALSE),
                      branchLoop(file, dirty, TRUE, ind - 1))
            ELSE IF afterAdd
            THEN Then(replicateIntegration(file, afterAdd, ind),
                      branchLoop(file, dirty, afterAdd, ind - 1))
            ELSE IF ownFile = localIntegSourceFile(file, 0)
            THEN Then(Did(<<Cmd("undo", ind, integ.localFile)>>, <<ind>>,
                          FALSE),
                      branchLoop(file, dirty, afterAdd, ind - 1))
            ELSE Then(Did(<<Cmd("integrate", ind, integ.localFile)>>
                          \o (IF dirty THEN <<Own("edit")>> ELSE <<>>),
                          <<ind>>, FALSE),
                      branchLoop(file, dirty, TRUE, ind - 1))

\* the integrations of index ind, ind-1, .., 0 integrated and resolved -ay
RECURSIVE ignoresLoop(_, _)
ignoresLoop(file, ind) ==
    IF ind < 0 THEN Nothing
    ELSE Then(Did(<<Cmd("integrate", ind, localIntegSourceFile(file, ind)),
                    Own("resolve -ay")>>, <<ind>>, FALSE),
              ignoresLoop(file, ind - 1))

\* P4Target.replicateBranch: 'add' of a file the target holds is turned
\* into an edit
replicateBranch(file, dirty, targ) ==
    IF /\ ~ignore_integrations
       /\ ~hasOnlyIgnoreIntegrations(file)
       /\ hasIntegrations(file)
       /\ localIntegSourceFile(file, 0) # NoPath
    THEN branchLoop(file, dirty, FALSE, numIntegrations(file) - 1)
    ELSE Then(Did(<<Own("add -ft")>>
                  \o (IF targ = "head"
                      THEN <<Own("sync -k"), Own("edit -t")>> ELSE <<>>),
                  <<>>, FALSE),
              IF hasIntegrations(file) /\ hasOnlyIgnoreIntegrations(file)
              THEN ignoresLoop(file, numIntegrations(file) - 1)
              ELSE Nothing)

\* the dispatch of processChangeRevs on one revision of InsideFile
processChangeRev(f, targ) ==
    LET n == numIntegrations(f)
        moved == Then(moveAddCmds(f),
                      IF n > 1 THEN replicateIntegration(f, TRUE, n)
                      ELSE Nothing)
    IN IF ignoreFile(localmap(InsideFile)) THEN Did(<<>>, <<>>, TRUE)
       ELSE IF f.action = "edit"
       THEN Did(<<Own("sync -k"), Own("edit -t")>>
                \o (IF targ # "head" THEN <<Own("add -ft")>> ELSE <<>>),
                <<>>, FALSE)
       ELSE IF f.action = "add"
       THEN IF hasMoveIntegrations(f) THEN moved
            ELSE IF hasIntegrations(f) THEN replicateBranch(f, TRUE, targ)
            ELSE Did(<<Own("add -ft")>>, <<>>, FALSE)
       ELSE IF f.action = "delete"
       THEN IF hasIntegrations(f) /\ ~hasOnlyMovedFromIntegrations(f)
            THEN replicateIntegration(f, FALSE, n)
            ELSE replicateDeleteCmds(targ)
       ELSE IF f.action = "branch" THEN replicateBranch(f, FALSE, targ)
       ELSE IF f.action = "integrate" THEN replicateIntegration(f, FALSE, n)
       ELSE IF f.action = "move/add" THEN moved
       ELSE Did(<<>>, <<>>, TRUE)

\* the loop of processChangeRevs over specialMoveRevs: a branch spec of the
\* two files and 'p4 copy -b' unless the first integration is no copy
processSpecialMove(f) ==
    IF numIntegrations(f) # 1 /\ getIntegration(f, 0).how # "copy from"
    THEN Nothing
    ELSE Did(<<Cmd("copy -b", 0, localIntegSourceFile(f, 0))>>, <<0>>, FALSE)

\* the index of the 'moved from' integration of f, NoEdge if it has none
movedFromIndex(f) ==
    IF \E i \in DOMAIN f.integs : f.integs[i].how = "moved from"
    THEN (CHOOSE i \in DOMAIN f.integs : f.integs[i].how = "moved from") - 1
    ELSE NoEdge

\* what the change does to the file a revision was moved from: nothing that
\* matters, a move/delete, or a revision with one 'branch from' integration;
\* getChange sees the latter two only if that file is in the view
Partners(f) ==
    IF movedFromIndex(f) # NoEdge
       /\ localIntegSourceFile(f, movedFromIndex(f)) # NoPath
    THEN {"none", "move/delete", "branch from"}
    ELSE {"none"}

\* one revision of InsideFile of a source change is about to be replicated
InitReplay ==
    /\ InitState
    /\ srcChanges = <<>>
    /\ config = ValidConfig
    /\ options = DefaultOptions
    /\ runsLeft = 0
    /\ faultsLeft = 0
    /\ mvPc = "none"
    /\ mvChange = {}
    /\ sourceP4DVersion \in Versions
    /\ re_ignore_files \in {{}, {localmap(InsideFile)}}
    /\ mvTracked = EmptyTracker
    /\ mvFileRevs = {}
    /\ mvIgnored = {}
    /\ mvTarget = {}
    /\ mvAccepted = FALSE
    /\ NoCompare
    /\ NoTypes
    /\ NoCaches
    /\ NoInteg
    /\ NoFurther
    /\ rpPc = "describe"
    /\ rpFile \in {f \in [action : Actions, integs : IntegrationLists] :
                      f.action \notin FilelogActions => f.integs = <<>>}
    /\ rpPartner \in Partners(rpFile)
    /\ rpWhere = "none"
    /\ rpTarget = "head"
    /\ ignore_integrations \in BOOLEAN
    /\ ignore_integrations => re_ignore_files = {}
    /\ issued = <<>>
    /\ rpEdges = <<>>
    /\ rpIgnored = FALSE
    /\ rpOpened = FALSE
    /\ rpLogged \in BOOLEAN
    /\ ~rpLogged => /\ rpFile.action \in FilelogActions
                    /\ rpFile.integs = <<>>
                    /\ rpPartner = "none"

\* P4Source.getChange on the revision: a revision that needs its filelog
\* is dropped if run_filelog returned no record of its file; a move is
\* tracked by its 'moved from' file and dropped if it has integrations but
\* none 'moved from';
\* getMoves turns an orphaned move/add into an add unless the server
\* supports special moves, and processSpecialMoveRevs takes it out of
\* fileRevs if it finds the copy and the branched partner
GetChangeRev ==
    /\ rpPc = "describe"
    /\ LET f == rpFile
           isMove == \/ f.action = "move/add"
                     \/ (f.action = "add" /\ hasMoveIntegrations(f))
           tracked == isMove /\ movedFromIndex(f) # NoEdge
           orphan == tracked /\ rpPartner # "move/delete"
           special == /\ orphan
                      /\ specialMovesSupported
                      /\ numIntegrations(f) = 2
                      /\ f.action = "move/add"
                      /\ \E i \in DOMAIN f.integs : f.integs[i].how = "copy from"
                      /\ rpPartner = "branch from"
       IN /\ rpWhere' = IF f.action \in FilelogActions /\ ~rpLogged
                        THEN "dropped"
                        ELSE IF isMove /\ hasIntegrations(f) /\ ~tracked
                        THEN "dropped"
                        ELSE IF special THEN "specialMoveRevs"
                        ELSE "fileRevs"
          /\ rpFile' = IF orphan /\ ~specialMovesSupported
                       THEN [f EXCEPT !.action = "add"] ELSE f
    /\ rpPc' = "replay"
    /\ UNCHANGED <<rpPartner, rpTarget, ignore_integrations, issued, rpEdges,
                   rpIgnored, rpOpened, rpLogged>>
    /\ UNCHANGED besideReplay

\* P4Target.processChangeRevs on the revision, whatever state its file has
\* on the target
ProcessChangeRev ==
    /\ rpPc = "replay"
    /\ \E targ \in {"head", "deleted", "never"} :
          LET did == IF rpWhere = "fileRevs"
                     THEN processChangeRev(rpFile, targ)
                     ELSE IF rpWhere = "specialMoveRevs"
                     THEN processSpecialMove(rpFile)
                     ELSE Nothing
          IN /\ rpTarget' = targ
             /\ issued' = did.issued
             /\ rpEdges' = did.edges
             /\ rpIgnored' = did.ignored
             /\ rpOpened' = (rpWhere # "dropped" /\ ~did.ignored
                                /\ did.issued # <<>>)
    /\ rpPc' = "done"
    /\ UNCHANGED <<rpFile, rpPartner, rpWhere, ignore_integrations, rpLogged>>
    /\ UNCHANGED besideReplay

NextReplay ==
    \/ GetChangeRev
    \/ ProcessChangeRev

SpecReplay == InitReplay /\ [][NextReplay]_vars

\* ------------------------------------------- C23
\* the revision is an add or a move/add moved from a file in the view
MovedFromInView ==
    /\ rpFile.action \in {"add", "move/add"}
    /\ movedFromIndex(rpFile) # NoEdge
    /\ localIntegSourceFile(rpFile, movedFromIndex(rpFile)) # NoPath

\* 'p4 move' from the 'moved from' file was issued and no 'p4 add -ft'
ReplayedAsMove ==
    /\ \E i \in DOMAIN issued :
          issued[i] = Cmd("move", movedFromIndex(rpFile),
                          localIntegSourceFile(rpFile, movedFromIndex(rpFile)))
    /\ \A i \in DOMAIN issued : issued[i] # Own("add -ft")

\* an orphaned move/add with a copy that a server later than 2021.0 reports
\* and whose 'moved from' file the change branches
IsSpecialMove ==
    /\ VersionGreater(sourceP4DVersion, <<2021, 0>>)
    /\ rpFile.action = "move/add"
    /\ numIntegrations(rpFile) = 2
    /\ \E i \in DOMAIN rpFile.integs : rpFile.integs[i].how = "copy from"
    /\ rpPartner = "branch from"

DeleteReplayed ==
    /\ rpPc = "done"
    /\ rpWhere = "fileRevs"
    /\ rpFile.action = "delete"
    /\ ~(hasIntegrations(rpFile) /\ ~hasOnlyMovedFromIntegrations(rpFile))
    /\ localmap(InsideFile) \notin re_ignore_files

\* C24 as stated: a delete replayed onto a target file that is already
\* deleted is recorded in the ignore set and the file is not opened
C24_DeleteOnDeletedIgnored ==
    (DeleteReplayed /\ rpTarget = "deleted") => (rpIgnored /\ ~rpOpened)

\* C24 amended: when the target reports the file not on the client,
\* replicateDelete syncs revision 1 of it; a file the target never held is
\* recorded in the ignore set and not opened, a file already deleted on the
\* target is opened for delete by a second 'delete -v' and not ignored
C24_DeleteIgnoredOnlyIfNeverOnTarget ==
    /\ (DeleteReplayed /\ rpTarget = "never") =>
          /\ rpIgnored
          /\ ~rpOpened
          /\ issued = <<Own("delete -v"), Own("sync -k #1")>>
    /\ (DeleteReplayed /\ rpTarget = "deleted") =>
          /\ ~rpIgnored
          /\ rpOpened
          /\ issued = <<Own("delete -v"), Own("sync -k #1"), Own("delete -v")>>

\* a delete was replayed onto a file already deleted on the target
C24_Witness ==
    /\ DeleteReplayed
    /\ rpTarget = "deleted"
    /\ Len(issued) = 3

\* ------------------------------------------- C25
\* C25 as stated: a source change whose sync reported a failed translation
\* of file content has no target change submitted for it, the counter stays
\* below it, and replicate() has returned 1
C25_UnsyncableChangeStopsRun ==
    \A n \in hist.unsynced :
        /\ counter < n
        /\ \A i \in DOMAIN targChanges : targChanges[i].src # n
        /\ pc = "idle"
        /\ exitCode = 1

\* ------------------------------------------- the caches of a cycle
\* the highest revision a file has
MaxRev == 3

\* the integrations from revisions of InsideFileB a revision may carry
RevIntegrations ==
    {[how |-> h, file |-> InsideFileB, localFile |-> localmap(InsideFileB),
      srev |-> s, erev |-> e] :
        h \in {"copy from", "moved from"}, s \in 0..(MaxRev - 1),
        e \in 1..MaxRev}

\* the revisions of the changes of a cycle: a revision of InsideFile with
\* at most two integrations, or an edit of InsideFileB
CachedRevisions ==
    LET ranged == {j \in RevIntegrations : j.srev < j.erev} IN
    {[depotFile |-> InsideFile, integs |-> <<>>],
     [depotFile |-> InsideFileB, integs |-> <<>>]}
        \cup {[depotFile |-> InsideFile, integs |-> <<i>>] : i \in ranged}
        \cup {[depotFile |-> InsideFile, integs |-> <<i, j>>] :
                 i, j \in ranged}

\* the loop of P4Source.adjustHistoricalIntegrations over the integrations
\* of one revision, from index ind down to the first: the revision startRev
\* the source file had before the start change is looked up unless the
\* cache holds the file or the integration is 'moved from'; an integration
\* whose erev is not positive afterwards is deleted
RECURSIVE adjustHistoricalLoop(_, _, _, _)
adjustHistoricalLoop(integs, cache, startRev, ind) ==
    IF ind = 0 THEN [integs |-> <<>>, cache |-> cache]
    ELSE LET integ == integs[ind]
             looked == IF integ.file \in DOMAIN cache
                          \/ integ.how = "moved from"
                          \/ startRev = 0
                       THEN cache
                       ELSE (integ.file :> startRev) @@ cache
             offset == looked[integ.file] - 1
             erev == integ.erev - offset
             srev == integ.srev - offset
             kept == IF integ.file \notin DOMAIN looked THEN <<integ>>
                     ELSE IF erev <= 0 THEN <<>>
                     ELSE <<[integ EXCEPT !.erev = erev,
                                          !.srev = IF srev < 0 THEN 0
                                                   ELSE srev]>>
             rest == adjustHistoricalLoop(integs, looked, startRev, ind - 1)
         IN [integs |-> rest.integs \o kept, cache |-> rest.cache]

\* P4Source.adjustHistoricalIntegrations on the integrations of one
\* revision: they are visited last one first
adjustHistoricalIntegrations(integs, cache, startRev) ==
    adjustHistoricalLoop(integs, cache, startRev, Len(integs))

\* the loop of P4Target.adjustTargetHistoricalIntegrations over the
\* integrations of one revision, from index ind down to the first: targRevs
\* is the first and the head revision 'p4 filelog' of the target shows for
\* the source of the integration
RECURSIVE adjustTargetHistoricalLoop(_, _, _, _)
adjustTargetHistoricalLoop(integs, cache, targRevs, ind) ==
    IF ind = 0 THEN [integs |-> <<>>, cache |-> cache]
    ELSE LET integ == integs[ind]
             depotFile == depotmap(integ.localFile)
             looked == IF depotFile \in DOMAIN cache \/ targRevs[1] = 1
                       THEN cache
                       ELSE (depotFile :> targRevs) @@ cache
             srev == looked[depotFile][1]
             erev == looked[depotFile][2]
             offset == srev - 1
             rdiff == integ.erev - integ.srev
             e1 == integ.erev + offset
             s1 == integ.srev + offset
             e2 == IF e1 > erev THEN erev ELSE e1
             s2 == IF e1 > erev THEN erev - rdiff ELSE s1
             kept == IF depotFile \notin DOMAIN looked THEN <<integ>>
                     ELSE IF e1 < srev THEN <<>>
                     ELSE <<[integ EXCEPT !.erev = e2,
                                          !.srev = IF s2 < srev THEN srev
                                                   ELSE s2]>>
             rest == adjustTargetHistoricalLoop(integs, looked, targRevs,
                                                ind - 1)
         IN [integs |-> rest.integs \o kept, cache |-> rest.cache]

\* P4Target.adjustTargetHistoricalIntegrations on the integrations of one
\* revision
adjustTargetHistoricalIntegrations(integs, cache, targRevs) ==
    adjustTargetHistoricalLoop(integs, cache, targRevs, Len(integs))

\* a cycle under historical_start_change is about to replicate changes
\* whose revisions integrate from InsideFileB, or edit it; both caches are
\* empty
InitCaches ==
    /\ InitState
    /\ srcChanges = <<>>
    /\ config = ValidConfig
    /\ options = [DefaultOptions EXCEPT !.historical_start_change = 1]
    /\ runsLeft = 0
    /\ faultsLeft = 0
    /\ NoMoves
    /\ NoCompare
    /\ NoTypes
    /\ NoReplay
    /\ NoInteg
    /\ NoFurther
    /\ chPc = "change"
    /\ chLeft = MaxChange
    /\ chStartRev \in 0..(MaxRev - 1)
    /\ chTargRevs \in {r \in (1..2) \X (1..(MaxRev - 1)) : r[1] <= r[2]}
    /\ chIntegs = [depotFile |-> InsideFile, integs |-> <<>>]
    /\ chFresh = [depotFile |-> InsideFile, integs |-> <<>>]
    /\ srcFileLogCache = EmptyDict
    /\ targStartRevCache = EmptyDict

\* replicate_changes: the next change of the cycle
NextCachedChange ==
    /\ chPc = "change"
    /\ chLeft > 0
    /\ \E f \in CachedRevisions :
          /\ f.depotFile = InsideFileB => chTargRevs[2] < MaxRev
          /\ chIntegs' = f
          /\ chFresh' = f
    /\ chLeft' = chLeft - 1
    /\ chPc' = "getChange"
    /\ UNCHANGED <<chStartRev, chTargRevs, srcFileLogCache, targStartRevCache>>
    /\ UNCHANGED besideCaches

\* P4Source.getChange: adjustHistoricalIntegrations, with the cache as the
\* changes before left it and with an empty one
GetChangeCached ==
    /\ chPc = "getChange"
    /\ IF options.historical_start_change # 0
       THEN LET adjusted == adjustHistoricalIntegrations(
                                chIntegs.integs, srcFileLogCache, chStartRev)
                fresh == adjustHistoricalIntegrations(
                             chFresh.integs, EmptyDict, chStartRev)
            IN /\ chIntegs' = [chIntegs EXCEPT !.integs = adjusted.integs]
               /\ srcFileLogCache' = adjusted.cache
               /\ chFresh' = [chFresh EXCEPT !.integs = fresh.integs]
       ELSE UNCHANGED <<chIntegs, chFresh, srcFileLogCache>>
    /\ chPc' = "replay"
    /\ UNCHANGED <<chLeft, chStartRev, chTargRevs, targStartRevCache>>
    /\ UNCHANGED besideCaches

\* P4Target.processChangeRevs: adjustTargetHistoricalIntegrations, with the
\* cache as the changes before left it and with an empty one, and the
\* submit: an edit of InsideFileB adds a revision to its target file
ReplicateCached ==
    /\ chPc = "replay"
    /\ IF options.historical_start_change # 0
       THEN LET adjusted == adjustTargetHistoricalIntegrations(
                                chIntegs.integs, targStartRevCache, chTargRevs)
                fresh == adjustTargetHistoricalIntegrations(
                             chFresh.integs, EmptyDict, chTargRevs)
            IN /\ chIntegs' = [chIntegs EXCEPT !.integs = adjusted.integs]
               /\ targStartRevCache' = adjusted.cache
               /\ chFresh' = [chFresh EXCEPT !.integs = fresh.integs]
       ELSE UNCHANGED <<chIntegs, chFresh, targStartRevCache>>
    /\ chTargRevs' = IF chIntegs.depotFile = InsideFileB
                     THEN <<chTargRevs[1], chTargRevs[2] + 1>>
                     ELSE chTargRevs
    /\ chPc' = "change"
    /\ UNCHANGED <<chLeft, chStartRev, srcFileLogCache>>
    /\ UNCHANGED besideCaches

NextCaches ==
    \/ NextCachedChange
    \/ GetChangeCached
    \/ ReplicateCached

SpecCaches == InitCaches /\ [][NextCaches]_vars

\* ------------------------------------------- C26
\* C26: the integrations a change is replayed with, and so the source
\* revisions its integrate and sync commands name, are the same whether the
\* caches hold what the changes before it left or nothing
C26_ReplayIndependentOfCaches ==
    chPc = "change" => chIntegs = chFresh

\* ------------------------------------------- the integrate retry loops
\* the regular expressions the loops search the output of an attempt for
Patterns ==
    {"cant_integ_without_i", "cant_integ_without_d",
     "all_revisions_already_integrated", "cant_integ_without_Di",
     "cant_branch_without_Dt", "no_revisions_above_that_revision",
     "file_remapped", "move_delete_needs_move_add", "no_such_file"}

\* what one attempt may answer: the output matches one pattern at most, or
\* two of which one is answered by more than a flag
Outputs ==
    {o \in SUBSET Patterns :
        \/ Cardinality(o) <= 1
        \/ /\ Cardinality(o) = 2
           /\ o \cap {"all_revisions_already_integrated",
                       "no_revisions_above_that_revision"} # {}}

\* every pattern answered by the flag of 'all revisions already integrated'
remedialFlagForce(pattern) == "-f"

\* the flag a loop appends when the output matches the pattern
remedialFlag(pattern) ==
    CASE pattern = "cant_integ_without_i" -> "-i"
      [] pattern = "cant_integ_without_d" -> "-d"
      [] pattern = "all_revisions_already_integrated" -> "-f"
      [] pattern = "cant_integ_without_Di" -> "-Di"
      [] pattern = "cant_branch_without_Dt" -> "-Dt"
      [] pattern = "file_remapped" -> "-2"

\* the revision before r that stays r
previousRevSame(r) == r

\* r1 = int(m.group(2)) - 1, r2 = int(m.group(3)) - 1
previousRev(r) == r - 1

\* re.search("(.*)#([0-9]+),([0-9]+)$", srcname): srcname ends with a range
\* of two revision numbers written without a sign
srcnameHasRange(revs) == revs # <<>> /\ revs[1] >= 0 /\ revs[2] >= 0

\* the first pattern of the chain that the output matches and whose flag is
\* not in flags, "" if there is none
RECURSIVE firstRemedy(_, _, _)
firstRemedy(chain, output, flags) ==
    IF chain = <<>> THEN ""
    ELSE IF Head(chain) \in output /\ remedialFlag(Head(chain)) \notin flags
    THEN Head(chain)
    ELSE firstRemedy(Tail(chain), output, flags)

\* what an iteration does after its attempt: append a flag, try the
\* revisions before, ignore the file, or leave the loop
Step(kind, flag) == [kind |-> kind, flag |-> flag]

\* P4Target.doIntegrate: the if chain of one iteration
doIntegrateStep(output, flags, revs) ==
    LET remedy == firstRemedy(<<"cant_integ_without_i",
                                "cant_integ_without_d",
                                "all_revisions_already_integrated",
                                "cant_integ_without_Di",
                                "cant_branch_without_Dt">>, output, flags)
    IN IF remedy # "" THEN Step("flag", remedialFlag(remedy))
       ELSE IF "no_revisions_above_that_revision" \in output
       THEN IF srcnameHasRange(revs) THEN Step("previous", "")
            ELSE Step("break", "")
       ELSE IF "file_remapped" \in output
               /\ remedialFlag("file_remapped") \notin flags
       THEN Step("flag", remedialFlag("file_remapped"))
       ELSE IF "all_revisions_already_integrated" \in output /\ "-f" \in flags
       THEN Step("ignore", "")
       ELSE Step("break", "")

\* P4Target.integrateDelete: the if chain of one iteration
integrateDeleteStep(output, flags, revs) ==
    LET remedy == firstRemedy(<<"cant_integ_without_d",
                                "cant_integ_without_Di",
                                "cant_branch_without_Dt",
                                "all_revisions_already_integrated">>,
                              output, flags)
    IN IF remedy # "" THEN Step("flag", remedialFlag(remedy))
       ELSE IF "no_revisions_above_that_revision" \in output
       THEN IF srcnameHasRange(revs) THEN Step("previous", "")
            ELSE Step("break", "")
       ELSE IF "all_revisions_already_integrated" \in output /\ "-f" \in flags
       THEN Step("ignore", "")
       ELSE IF "move_delete_needs_move_add" \in output THEN Step("copy", "")
       ELSE Step("break", "")

\* the flags the callers of doIntegrate hand over: the default, those of
\* replicateBranch and of replicateIntegration, and those of the second call
\* of replicateIntegration for an ignored delete, which holds what the
\* first call appended
CallerFlags ==
    {{"-t"}, {"-t", "-v"}, {"-t", "-Rb"}}
        \cup {{"-t", "-Rd"} \cup more : more \in {{}, {"-Rb"}, {"-f"}}}

\* localIntegSource: "file#erev" if srev is 0, else "file#srev+1,erev"
SourceRevs ==
    {<<>>} \cup {r \in (1..MaxRev) \X (1..MaxRev) :
                    r[1] <= r[2] /\ r[2] <= r[1] + 1}

\* doIntegrate or integrateDelete is called
InitIntegrate ==
    /\ InitState
    /\ srcChanges = <<>>
    /\ config = ValidConfig
    /\ options = DefaultOptions
    /\ runsLeft = 0
    /\ faultsLeft = 0
    /\ NoMoves
    /\ NoCompare
    /\ NoTypes
    /\ NoReplay
    /\ NoCaches
    /\ NoFurther
    /\ igPc = "loop"
    /\ igLoop \in {"doIntegrate", "integrateDelete"}
    /\ igFlags \in (IF igLoop = "doIntegrate" THEN CallerFlags ELSE {{}})
    /\ igRevs \in SourceRevs
    /\ igOutput = {}
    /\ igIgnored = FALSE
    /\ igAfter = "none"

\* what an iteration leaves behind
Iterate(step) ==
    /\ igFlags' = IF step.kind = "flag" THEN igFlags \cup {step.flag}
                  ELSE igFlags
    /\ igRevs' = IF step.kind = "previous"
                 THEN <<previousRev(igRevs[1]), previousRev(igRevs[2])>>
                 ELSE igRevs
    /\ igIgnored' = (step.kind = "ignore")
    /\ igPc' = IF step.kind \in {"flag", "previous"} THEN "loop" ELSE "done"

\* one iteration of the loop of doIntegrate: integrateWithFlags and the if
\* chain
DoIntegrateAttempt ==
    /\ igPc = "loop"
    /\ igLoop = "doIntegrate"
    /\ \E output \in Outputs :
          /\ igOutput' = output
          /\ Iterate(doIntegrateStep(output, igFlags, igRevs))
    /\ UNCHANGED <<igLoop, igAfter>>
    /\ UNCHANGED besideInteg

\* one iteration of the loop of integrateDelete, and after the last one the
\* copy, the delete or the resolve
IntegrateDeleteAttempt ==
    /\ igPc = "loop"
    /\ igLoop = "integrateDelete"
    /\ \E output \in Outputs :
          LET step == integrateDeleteStep(output, igFlags, igRevs) IN
          /\ igOutput' = output
          /\ Iterate(step)
          /\ igAfter' = IF step.kind = "copy" THEN "copy"
                        ELSE IF step.kind = "break"
                        THEN IF "no_such_file" \in output THEN "delete -v"
                             ELSE "resolve -at"
                        ELSE "none"
    /\ UNCHANGED igLoop
    /\ UNCHANGED besideInteg

NextIntegrate ==
    \/ DoIntegrateAttempt
    \/ IntegrateDeleteAttempt

SpecIntegrate == InitIntegrate /\ [][NextIntegrate]_vars

\* a loop that is not left goes on to its next iteration
SpecIntegrateFair == SpecIntegrate /\ WF_vars(NextIntegrate)

\* ------------------------------------------- C27
\* the output matches nothing the loop has a new answer to: no pattern
\* whose flag the flags lack, and no 'no revision(s) above that revision'
\* while srcname ends with a range
NoNewPattern(output, flags, revs) ==
    /\ \A f \in {"-d", "-f", "-Di", "-Dt"} \cup
                (IF igLoop = "doIntegrate" THEN {"-i", "-2"} ELSE {}) :
          f \in flags \/
             \A p \in output :
                <<p, f>> \notin {<<"cant_integ_without_i", "-i">>,
                                 <<"cant_integ_without_d", "-d">>,
                                 <<"all_revisions_already_integrated", "-f">>,
                                 <<"cant_integ_without_Di", "-Di">>,
                                 <<"cant_branch_without_Dt", "-Dt">>,
                                 <<"file_remapped", "-2">>}
    /\ ~("no_revisions_above_that_revision" \in output
            /\ revs # <<>> /\ revs[1] >= 0)

\* C27: whatever the server answers, the retry loops of doIntegrate and
\* integrateDelete are left, and an attempt whose output matches no new
\* pattern is the last one
C27_RetryLoopsTerminate ==
    /\ <>(igPc = "done")
    /\ [][NoNewPattern(igOutput', igFlags, igRevs) => igPc' = "done"]_vars

\* a loop was left after it had appended five flags and gone back to the
\* revisions before the first one
C27_Witness ==
    /\ igPc = "done"
    /\ Cardinality(igFlags \cap {"-i", "-d", "-f", "-Di", "-Dt", "-2"}) >= 5
    /\ igRevs # <<>>
    /\ igRevs[1] < 0

\* ------------------------------------------- C28
\* the flags the patterns are answered with
FlagOfPattern ==
    {<<"cant_integ_without_i", "-i">>, <<"cant_integ_without_d", "-d">>,
     <<"all_revisions_already_integrated", "-f">>,
     <<"cant_integ_without_Di", "-Di">>, <<"cant_branch_without_Dt", "-Dt">>,
     <<"file_remapped", "-2">>}

\* C28: every retry appends exactly the one flag, not yet in the flags, of
\* a pattern the output matches, or leaves the flags alone and lowers both
\* source revisions by one after 'no revision(s) above that revision'; no
\* flag is removed; the destination is ignored only after an attempt with
\* -f answered 'all revision(s) already integrated', and that attempt is
\* the last
C28_RetryAddsMappedFlag ==
    [][/\ igFlags \subseteq igFlags'
       /\ igPc' = "loop" =>
             \/ /\ igRevs' = igRevs
                /\ \E pf \in FlagOfPattern :
                      /\ pf[1] \in igOutput'
                      /\ pf[2] \notin igFlags
                      /\ igFlags' = igFlags \cup {pf[2]}
             \/ /\ igFlags' = igFlags
                /\ "no_revisions_above_that_revision" \in igOutput'
                /\ igRevs' = <<igRevs[1] - 1, igRevs[2] - 1>>
       /\ igIgnored' =>
             /\ "all_revisions_already_integrated" \in igOutput'
             /\ "-f" \in igFlags
             /\ igPc' = "done"]_vars

\* a loop appended -f, was answered 'all revision(s) already integrated'
\* again and ignored the destination
C28_Witness ==
    /\ igPc = "done"
    /\ igIgnored
    /\ igRevs # <<>>
    /\ igRevs[1] = 0
    /\ Cardinality(igFlags) >= 4

\* ------------------------------------------- C29
\* C29: the integrations of a revision are replayed in strictly descending
\* order of their index, each once at most
C29_EdgesReplayedDescendingOnce ==
    rpPc = "done" =>
        \A i, j \in DOMAIN rpEdges : i < j => rpEdges[i] > rpEdges[j]

\* ------------------------------------------- C30
\* C30: no integrate, sync or undo command names the source of an
\* integration whose source has no local path
C30_NoCommandFromNullSource ==
    \A i \in DOMAIN issued :
        issued[i].name \in {"integrate", "sync", "sync -f", "undo"} =>
            issued[i].from # NoPath

\* ------------------------------------------- the submit of one change
\* What p4.errors[0] of a failed submit matches: re_resubmit ("Out of date
\* files must be resolved or reverted"), re_transferProblems ("fix problems
\* then use 'p4 submit -c N'. Some file(s) could not be transferred from
\* client"), or neither.
SubmitErrors == {"out_of_date", "transfer_problems", "other"}

\* One warning of the submit: re_translation ("Translation of file content
\* failed near line N file F") names a file, any other warning does not.
Warning(kind, file) == [kind |-> kind, file |-> file]

SubmitWarnings ==
    {Warning("translation", InsideFile), Warning("translation", InsideFileB),
     Warning("other", NoPath)}

WarningLists ==
    {<<>>} \cup {<<w>> : w \in SubmitWarnings}
           \cup {<<v, w>> : v, w \in SubmitWarnings}

resubmitsOnAnyError(error, renameOfDeleted, resolveDelete) == TRUE

\* replicateChange, the except branch: whether the submit is run again with
\* 'submit -c'
resubmits(error, renameOfDeleted, resolveDelete) ==
    IF error = "out_of_date" /\ (renameOfDeleted \/ resolveDelete)
    THEN TRUE
    ELSE error = "transfer_problems"

\* replicateChange, the except branch: the files reopened as binary before
\* the second submit
reopenedAsBinary(error, renameOfDeleted, resolveDelete, warnings) ==
    IF error = "out_of_date" /\ (renameOfDeleted \/ resolveDelete)
    THEN {}
    ELSE IF error = "transfer_problems" /\ warnings # <<>>
                                        /\ warnings[1].kind = "translation"
    THEN {warnings[i].file :
             i \in {j \in DOMAIN warnings : warnings[j].kind = "translation"}}
    ELSE {}

InitSubmit ==
    /\ InitState
    /\ srcChanges = <<>>
    /\ config = ValidConfig
    /\ options = DefaultOptions
    /\ runsLeft = 0
    /\ faultsLeft = 0
    /\ NoMoves
    /\ NoCompare
    /\ NoTypes
    /\ NoReplay
    /\ NoCaches
    /\ NoInteg
    /\ NoNotify
    /\ sbPc = "begin"
    /\ renameOfDeletedFileEncountered = FALSE
    /\ resolveDeleteEncountered = FALSE
    /\ sbErrors = "none"
    /\ sbWarnings = <<>>
    /\ sbReopened = {}
    /\ sbSubmits = 0
    /\ sbCounter = 0
    /\ sbChange = 0

\* replicate_changes takes the next change; replicateChange resets the flags
\* and filesToIgnore
BeginReplicateChange ==
    /\ sbPc = "begin"
    /\ sbCounter < MaxChange
    /\ sbChange' = sbCounter + 1
    /\ renameOfDeletedFileEncountered' = FALSE
    /\ resolveDeleteEncountered' = FALSE
    /\ sbReopened' = {}
    /\ sbSubmits' = 0
    /\ sbErrors' = "none"
    /\ sbWarnings' = <<>>
    /\ sbPc' = "replay"
    /\ UNCHANGED sbCounter
    /\ UNCHANGED besideSubmit

\* processChangeRevs: moveAdd sets renameOfDeletedFileEncountered on the
\* edit of a deleted file, replicateDelete sets resolveDeleteEncountered
\* after its second delete; 'p4 opened' then lists files or none
ReplayChangeRevs ==
    /\ sbPc = "replay"
    /\ \E renameOfDeleted, resolveDelete, anyOpened \in BOOLEAN :
          /\ renameOfDeletedFileEncountered' = renameOfDeleted
          /\ resolveDeleteEncountered' = resolveDelete
          /\ sbPc' = IF anyOpened THEN "submit" ELSE "validate"
    /\ UNCHANGED <<sbErrors, sbWarnings, sbReopened, sbSubmits, sbCounter,
                   sbChange>>
    /\ UNCHANGED besideSubmit

\* fetch_change and save_submit, and on a P4Exception the choice between
\* raising and preparing the second submit
SaveSubmit ==
    /\ sbPc = "submit"
    /\ sbSubmits' = 1
    /\ \E error \in {"none"} \cup SubmitErrors : \E warnings \in WarningLists :
          /\ sbErrors' = error
          /\ sbWarnings' = warnings
          /\ IF error = "none"
             THEN sbPc' = "validate" /\ UNCHANGED sbReopened
             ELSE IF resubmits(error, renameOfDeletedFileEncountered,
                               resolveDeleteEncountered)
             THEN /\ sbReopened' =
                        reopenedAsBinary(error,
                                         renameOfDeletedFileEncountered,
                                         resolveDeleteEncountered, warnings)
                  /\ sbPc' = "resubmit"
             ELSE sbPc' = "raised" /\ UNCHANGED sbReopened
    /\ UNCHANGED <<renameOfDeletedFileEncountered, resolveDeleteEncountered,
                   sbCounter, sbChange>>
    /\ UNCHANGED besideSubmit

\* 'submit -c' of the numbered change, after the sync of the opened files
\* when the files were out of date; an error of either is not caught
Resubmit ==
    /\ sbPc = "resubmit"
    /\ \E prepared \in (IF sbErrors = "out_of_date" THEN BOOLEAN ELSE {TRUE}) :
          IF prepared
          THEN /\ sbSubmits' = 2
               /\ \E error \in {"none"} \cup SubmitErrors :
                     /\ sbErrors' = error
                     /\ sbPc' = IF error = "none" THEN "validate" ELSE "raised"
          ELSE /\ sbPc' = "raised"
               /\ UNCHANGED <<sbSubmits, sbErrors>>
    /\ UNCHANGED <<renameOfDeletedFileEncountered, resolveDeleteEncountered,
                   sbWarnings, sbReopened, sbCounter, sbChange>>
    /\ UNCHANGED besideSubmit

\* validateSubmittedChange, and when replicateChange has returned,
\* replicate_changes sets the counter to the change
ValidateAndSetCounter ==
    /\ sbPc = "validate"
    /\ \E accepted \in BOOLEAN :
          IF accepted
          THEN sbCounter' = sbChange /\ sbPc' = "begin"
          ELSE sbPc' = "raised" /\ UNCHANGED sbCounter
    /\ UNCHANGED <<renameOfDeletedFileEncountered, resolveDeleteEncountered,
                   sbErrors, sbWarnings, sbReopened, sbSubmits, sbChange>>
    /\ UNCHANGED besideSubmit

\* the exception leaves replicate_changes; the next cycle reads the counter
RaisedToScheduler ==
    /\ sbPc = "raised"
    /\ sbPc' = "begin"
    /\ UNCHANGED <<renameOfDeletedFileEncountered, resolveDeleteEncountered,
                   sbErrors, sbWarnings, sbReopened, sbSubmits, sbCounter,
                   sbChange>>
    /\ UNCHANGED besideSubmit

NextSubmit ==
    \/ BeginReplicateChange
    \/ ReplayChangeRevs
    \/ SaveSubmit
    \/ Resubmit
    \/ ValidateAndSetCounter
    \/ RaisedToScheduler

SpecSubmit == InitSubmit /\ [][NextSubmit]_vars

\* ------------------------------------------- C31
\* the step that runs the second submit of a change
SecondSubmitStep == sbSubmits = 1 /\ sbSubmits' = 2

\* the first submit was out of date and a flag was set during the replay
OutOfDateAfterFlag ==
    /\ sbErrors = "out_of_date"
    /\ renameOfDeletedFileEncountered \/ resolveDeleteEncountered

\* a submit command of this step failed
SubmitFailedStep ==
    /\ sbPc \in {"submit", "resubmit"}
    /\ sbSubmits' = sbSubmits + 1
    /\ sbErrors' # "none"

\* what the statement says of every step, whatever the reasons of a retry
RetriedAtMostOnceAndPropagated(retryAllowed) ==
    /\ sbSubmits' <= 2
    /\ SecondSubmitStep => retryAllowed
    /\ SubmitFailedStep /\ sbSubmits' = 2 => sbPc' = "raised"
    /\ SubmitFailedStep /\ sbSubmits' = 1 /\ sbPc' # "raised"
          => sbPc' = "resubmit"
    /\ sbPc' = "raised" \/ sbPc = "raised" => sbCounter' = sbCounter
    /\ sbPc' = "replay" => /\ ~renameOfDeletedFileEncountered'
                           /\ ~resolveDeleteEncountered'

\* C31 (as stated): a failed submit is retried at most once, and only
\* after an out-of-date error with a rename-of-deleted or resolve-delete flag
\* set during the replay of the same change, or after a content-translation
\* failure whose files were reopened as binary; every other failure, and a
\* failure of the retry, reaches the scheduler with the counter unchanged,
\* and both flags are false when a change begins.
C31_RetryOnlyOutOfDateOrTranslation ==
    [][RetriedAtMostOnceAndPropagated(
          \/ OutOfDateAfterFlag
          \/ sbErrors = "transfer_problems" /\ sbReopened # {})]_vars

\* C31 (amended): the second reason for the one retry is any failure that
\* says files could not be transferred from the client; the files that
\* translation warnings name are reopened as binary first, when the first
\* warning is a translation warning, and otherwise the same change is
\* submitted again unchanged. Every failure that is neither, and a failure
\* of the retry, reaches the scheduler with the counter unchanged, and both
\* flags are false when a change begins.
C31_RetryOnlyOutOfDateOrTransferProblems ==
    [][/\ RetriedAtMostOnceAndPropagated(
             \/ OutOfDateAfterFlag
             \/ sbErrors = "transfer_problems")
       /\ SecondSubmitStep /\ ~OutOfDateAfterFlag =>
             sbReopened =
                IF sbWarnings # <<>> /\ sbWarnings[1].kind = "translation"
                THEN {w.file : w \in {v \in Range(sbWarnings) :
                                         v.kind = "translation"}}
                ELSE {}]_vars

\* a submit failed for files that could not be transferred, no warning named
\* a file, and the second submit went through
C31_Witness ==
    /\ sbPc = "validate"
    /\ sbSubmits = 2
    /\ sbReopened = {}
    /\ sbWarnings # <<>>
    /\ sbErrors = "none"
    /\ ~renameOfDeletedFileEncountered
    /\ ~resolveDeleteEncountered

\* ------------------------------------------- C32
\* the revision needs its filelog and getChange found no record of it, or
\* it is a move with integrations none of which is 'moved from'
RecordMissing ==
    \/ rpFile.action \in FilelogActions /\ ~rpLogged
    \/ /\ \/ rpFile.action = "move/add"
          \/ rpFile.action = "add" /\ hasMoveIntegrations(rpFile)
       /\ hasIntegrations(rpFile)
       /\ movedFromIndex(rpFile) = NoEdge

\* C32: getChange does not return with a revision left out of its lists
\* because its filelog record, or its 'moved from' integration, is missing.
C32_MissingRecordNeverDropped ==
    rpPc \in {"replay", "done"} /\ RecordMissing => rpWhere # "dropped"

\* ------------------------------------------- C33
\* the integration after the shift by the revisions before the start, k
\* being the latest revision its source file had before the start change
Shifted(integ, k) ==
    [integ EXCEPT !.erev = @ - (k - 1),
                  !.srev = IF @ - (k - 1) < 0 THEN 0 ELSE @ - (k - 1)]

StillRanged(integ) == integ.erev > 0

\* what the statement says is left of the integrations
ShiftedAndPruned(integs, k) ==
    IF k = 0 THEN integs
    ELSE SelectSeq([i \in DOMAIN integs |-> Shifted(integs[i], k)],
                   StillRanged)

\* C33: after adjustHistoricalIntegrations every integration from a file
\* with a revision before the start change is shifted by that revision less
\* one, srev not below 0; exactly those whose erev is then not positive are
\* gone and the others keep their order; integrations from files that first
\* appear at or after the start change are as they were.
C33_EdgesShiftedAndPruned ==
    [][chPc = "getChange" /\ chPc' = "replay" =>
          chIntegs'.integs = ShiftedAndPruned(chIntegs.integs, chStartRev)]_vars

\* ------------------------------------------- C34
\* the target changes submitted by replicateFirstChange
ReconcileChanges(targ) == {i \in DOMAIN targ : targ[i].kind = "first"}

\* what the statement says of the counter and of the change in hand
CounterFromStart(start) ==
    /\ counter = 0 /\ counter' # 0 => counter' = start
    /\ counter # 0 /\ counter' # counter =>
          counter' > start /\ counter' \in DOMAIN srcChanges
    /\ cur' # start
    /\ \A i \in DOMAIN targChanges' :
          targChanges'[i].kind = "change" => targChanges'[i].src # start

MaxTime == 5
MaxInterval == 2

\* the loop of replicate() after setupReplicate, with no error seen
InitNotify ==
    /\ InitState
    /\ srcChanges = <<>>
    /\ config = ValidConfig
    /\ options = DefaultOptions
    /\ runsLeft = 0
    /\ faultsLeft = 0
    /\ NoMoves
    /\ NoCompare
    /\ NoTypes
    /\ NoReplay
    /\ NoCaches
    /\ NoInteg
    /\ NoSubmit
    /\ ntPc = "loop"
    /\ ntOptions \in [repeat : BOOLEAN, stoponerror : BOOLEAN,
                      notransfer : BOOLEAN,
                      error_report_interval : 0..MaxInterval]
    /\ ntNow = 0
    /\ time_last_error_occurred = 0
    /\ error_encountered = FALSE
    /\ error_notified = FALSE
    /\ notified = <<>>
    /\ ntPrev = "none"

notifiesRecurringAtOnce(now, last, interval) == TRUE

\* 'time.time() - time_last_error_occurred > error_report_interval * 60'
notifiesRecurring(now, last, interval) == now - last > interval

\* whether a cycle that raised nothing reaches the test of error_encountered:
\* not after a full batch, and not without --repeat
clears(repeat, full) == ~full /\ repeat

\* replicate_changes returned: a full batch goes straight to the next cycle;
\* without --repeat the loop ends; otherwise an error seen before is
\* reported as cleared, and the end time or the stop file end the loop.
\* The summary mail is not looked into.
CycleSucceeds ==
    /\ ntPc = "loop"
    /\ \E spent \in 1..(MaxTime - ntNow) :
       \E full, stopOrEnd \in BOOLEAN :
          LET cleared == /\ clears(ntOptions.repeat, full)
                         /\ error_encountered
              finished == \/ ntOptions.notransfer
                          \/ ~full /\ ~ntOptions.repeat
                          \/ ~full /\ ntOptions.repeat /\ stopOrEnd
              mails == (IF cleared THEN <<"Cleared error">> ELSE <<>>)
                          \o (IF finished THEN <<"Changes transferred">>
                              ELSE <<>>)
          IN /\ ntNow' = ntNow + spent
             /\ error_encountered' = (error_encountered /\ ~cleared)
             /\ error_notified' = (error_notified /\ ~cleared)
             /\ notified' = notified \o mails
             /\ ntPc' = IF finished THEN "returned 0" ELSE "loop"
             /\ ntPrev' = IF full THEN "full batch" ELSE "ok"
    /\ UNCHANGED <<ntOptions, time_last_error_occurred>>
    /\ UNCHANGED besideNotify

\* the cycle raised an exception that is no P4TException: with --stoponerror
\* replicate() returns 1; otherwise the first error is remembered with its
\* time, a later one is notified once when the first is older than
\* error_report_interval, and the loop sleeps and goes on
CycleRaisesException ==
    /\ ntPc = "loop"
    /\ \E spent \in 1..(MaxTime - ntNow) :
          LET now == ntNow + spent IN
          /\ ntNow' = now
          /\ IF ntOptions.stoponerror
             THEN /\ notified' = Append(notified, "Error")
                  /\ ntPc' = "returned 1"
                  /\ UNCHANGED <<error_encountered, error_notified,
                                 time_last_error_occurred>>
             ELSE /\ ntPc' = "loop"
                  /\ IF ~error_encountered
                     THEN /\ error_encountered' = TRUE
                          /\ time_last_error_occurred' = now
                          /\ UNCHANGED <<error_notified, notified>>
                     ELSE IF ~error_notified
                             /\ notifiesRecurring(now,
                                    time_last_error_occurred,
                                    ntOptions.error_report_interval)
                     THEN /\ error_notified' = TRUE
                          /\ notified' = Append(notified, "Recurring error")
                          /\ UNCHANGED <<error_encountered,
                                         time_last_error_occurred>>
                     ELSE UNCHANGED <<error_encountered, error_notified,
                                      time_last_error_occurred, notified>>
    /\ ntPrev' = "error"
    /\ UNCHANGED ntOptions
    /\ UNCHANGED besideNotify

\* the cycle raised a P4TException: replicate() notifies and returns 1
CycleRaisesP4TException ==
    /\ ntPc = "loop"
    /\ \E spent \in 1..(MaxTime - ntNow) : ntNow' = ntNow + spent
    /\ notified' = Append(notified, "Error")
    /\ ntPc' = "returned 1"
    /\ ntPrev' = "error"
    /\ UNCHANGED <<ntOptions, time_last_error_occurred, error_encountered,
                   error_notified>>
    /\ UNCHANGED besideNotify

NextNotify ==
    \/ CycleSucceeds
    \/ CycleRaisesException
    \/ CycleRaisesP4TException

SpecNotify == InitNotify /\ [][NextNotify]_vars

\* ------------------------------------------- C35
\* this step is a cycle that ended with an error the loop goes on after
ErrorCycleStep == ntNow' > ntNow /\ ntPrev' = "error" /\ ntPc' = "loop"

\* this step is a cycle that raised nothing
GoodCycleStep == ntNow' > ntNow /\ ntPrev' \in {"ok", "full batch"}

Sent(subject) ==
    /\ Len(notified') > Len(notified)
    /\ \E i \in (Len(notified) + 1)..Len(notified') : notified'[i] = subject

Count(subject, mails) ==
    Cardinality({i \in DOMAIN mails : mails[i] = subject})

\* at most one 'Recurring error' for the errors between two clearings
OncePerEpisode ==
    /\ Sent("Recurring error") => ~error_notified /\ error_notified'
    /\ error_notified /\ ~error_notified' => Sent("Cleared error")
    /\ Count("Recurring error", notified')
          <= Count("Cleared error", notified') + 1

\* C35 (as stated): a second consecutive error within
\* error_report_interval of the first sends 'Recurring error', at most one
\* per episode, and the first cycle that succeeds after an error sends
\* 'Cleared error' and resets the error state.
C35_SecondErrorWithinIntervalNotified ==
    [][/\ ErrorCycleStep /\ ntPrev = "error" /\ error_encountered
             /\ ~error_notified
             /\ ntNow' - time_last_error_occurred
                   <= ntOptions.error_report_interval
          => Sent("Recurring error")
       /\ OncePerEpisode
       /\ GoodCycleStep /\ error_encountered
          => /\ Sent("Cleared error")
             /\ ~error_encountered' /\ ~error_notified']_vars

\* C35 (amended): an error of a cycle that follows an earlier error not
\* yet cleared sends 'Recurring error' exactly when none was sent since
\* and the first error is older than error_report_interval, so a second
\* error within the interval sends nothing; a cycle that raised nothing
\* sends 'Cleared error' and resets the error state exactly when an error
\* is remembered, --repeat is set and the cycle did not fill its batch;
\* after a full batch, and at the end of a run without --repeat, the error
\* state stays as it was and nothing is sent for it.
C35_ErrorOlderThanIntervalNotified ==
    [][/\ ErrorCycleStep =>
             (Sent("Recurring error") <=>
                 /\ error_encountered /\ ~error_notified
                 /\ ntNow' - time_last_error_occurred
                       > ntOptions.error_report_interval)
       /\ OncePerEpisode
       /\ GoodCycleStep =>
             /\ Sent("Cleared error") <=>
                   /\ error_encountered
                   /\ ntOptions.repeat
                   /\ ntPrev' = "ok"
             /\ Sent("Cleared error") =>
                   ~error_encountered' /\ ~error_notified'
             /\ ~Sent("Cleared error") =>
                   /\ error_encountered' = error_encountered
                   /\ error_notified' = error_notified]_vars

\* an error, a second one after the interval that was notified, and a cycle
\* that cleared it
C35_Witness ==
    /\ Count("Recurring error", notified) = 1
    /\ Count("Cleared error", notified) = 1
    /\ ~error_encountered
    /\ ntPc = "loop"

\* ------------------------------------------- C36
\* the verdict the decision table gives for two revisions with the same
\* local path; for keyword-expanded text the digest of a revision stands for
\* the digest computed without the keyword lines
TableVerdict(self, other) ==
    IF self.action = "purge" \/ other.action = "purge" THEN TRUE
    ELSE IF \/ self.fileSize = 11 /\ self.digest = purgedDigest
            \/ other.fileSize = 11 /\ other.digest = purgedDigest
    THEN TRUE
    ELSE IF ~isText(self.type) \/ (self.type # "ktext" /\ compatible)
    THEN \/ <<self.fileSize, self.digest, canonicalType(self.type)>>
               = <<other.fileSize, other.digest, canonicalType(other.type)>>
         \/ self.type = "utf16" /\ Abs(self.fileSize - other.fileSize) < 5
    ELSE IF self.type # "ktext" THEN TRUE
    ELSE self.digest = other.digest

\* C36: for two revisions with the same local path the verdict of the
\* comparison is the one of the decision table: equal for purge and the
\* purged marker; size, digest and canonical type for non-text and for plain
\* text on the same server OS, with utf16 of nearly the same size equal;
\* equal for plain text across different OS; and for keyword-expanded text
\* equal exactly when the digests without the keyword lines are equal.
C36_VerdictFollowsTable ==
    cmpPc \in {"accepted", "raised"} =>
       \A r \in cmpSource : \A t \in cmpTarget :
          r.localFile = t.localFile =>
             (ChangeRevision_eq(t, r) <=> TableVerdict(t, r))

\* ------------------------------------------- C37
\* the revision is a move/add with exactly two integrations, one 'moved
\* from' and one 'copy from', and the file it was moved from is branched in
\* the same change
SpecialMoveShape ==
    /\ rpFile.action = "move/add"
    /\ numIntegrations(rpFile) = 2
    /\ \E i \in DOMAIN rpFile.integs : rpFile.integs[i].how = "moved from"
    /\ \E i \in DOMAIN rpFile.integs : rpFile.integs[i].how = "copy from"
    /\ rpPartner = "branch from"

\* C37: after getChange on a server with special moves a revision is in
\* specialMoveRevs only if it is a move/add with one 'moved from' and one
\* 'copy from' integration and a partner with a single 'branch from'; any
\* other revision is in fileRevs, so every in-view revision is in one of
\* the two lists or attached as a partner.
C37_SpecialMovesPartitioned ==
    rpPc \in {"replay", "done"} /\ specialMovesSupported =>
       /\ rpWhere = "specialMoveRevs" => SpecialMoveShape
       /\ rpWhere \in {"fileRevs", "specialMoveRevs"}

\* ------------------------------------------- C38
\* the integrate commands issued that name the integration of index i
IntegratesNaming(i) ==
    {k \in DOMAIN issued : issued[k].name = "integrate" /\ issued[k].ind = i}

\* the times the integration of index i was replayed
ReplaysOf(i) == {k \in DOMAIN rpEdges : rpEdges[k] = i}

\* C38: every integrate command issued while replaying integration i of a
\* revision names the source file and revision range of integration i,
\* also for an 'edit from' integration whose index is not 0: no
\* integration is named by more integrate commands than it was replayed.
C38_IntegrateNamesReplayedEdge ==
    rpPc = "done" =>
       \A i \in 0..(numIntegrations(rpFile) - 1) :
          Cardinality(IntegratesNaming(i)) <= Cardinality(ReplaysOf(i))

\* ------------------------------------------- C39
\* a step in which a cycle fails with an exception that is caught by one
\* of the two except clauses of replicate()
CycleFailsStep ==
    /\ pc \notin {"idle", "errorSleep"}
    /\ \/ pc' = "errorSleep"
       \/ pc' = "idle" /\ exitCode' = 1

\* C39: without --repeat replicate() always terminates: a cycle that fails
\* with an error makes it return, with or without --stoponerror, and it
\* never sleeps on the error and goes round the loop again.
C39_ErrorEndsRunWithoutRepeat ==
    [][~options.repeat =>
          /\ CycleFailsStep => pc' = "idle"
          /\ ~(pc = "errorSleep" /\ pc' = "loop")]_vars

\* ------------------------------------------- C40
\* the branch-spec copy of a special move and its partner was issued
CopiedByBranchSpec == \E k \in DOMAIN issued : issued[k].name = "copy -b"

\* C40: every entry of specialMoveRevs is acted on during replay whatever
\* the order of its 'moved from' and 'copy from' integrations:
\* processChangeRevs issues the branch-spec copy for it and its partner,
\* and none is skipped with no command issued.
C40_SpecialMoveNeverSkipped ==
    rpPc = "done" /\ rpWhere = "specialMoveRevs" => CopiedByBranchSpec
====
